---- MODULE Spec2Model ----
(***************************************************************************)
(* Verification model of the etrace extraction-to-domain pipeline:         *)
(*   - the bounded-concurrency batch runs of CrawlerService and            *)
(*     GitHubAPIService (asyncio.Semaphore + asyncio.gather),              *)
(*   - Event.from_api_response and the _fetch_events batch loop,           *)
(*   - the extraction converters and their batch loops.                    *)
(* Python values are encoded as records of strings so that values of       *)
(* different Python types can be compared.                                 *)
(***************************************************************************)
EXTENDS Integers, Sequences, FiniteSets, TLC

VARIABLES
    \* ---- batch run (crawl_multiple_urls / get_multiple_user_events) ----
    kind,               \* which batch method runs: "crawl" or "events"
    items,              \* urls / usernames, in input order
    concurrent_limit,   \* the concurrent_limit argument
    sem_value,          \* asyncio.Semaphore._value
    sem_waiters,        \* asyncio.Semaphore._waiters (FIFO of task indices)
    tpc,                \* position of each gathered task
    outcome,            \* how each task's coroutine ended
    finished,           \* task indices in completion order
    bpc,                \* position of the batch call itself
    processed_results,  \* return value of crawl_multiple_urls
    user_events,        \* return value of get_multiple_user_events
    \* ---- event pipeline (Event.from_api_response / _fetch_events) ----
    call,               \* which function is called
    epc,                \* position of the call: "called" or "done"
    event_data,         \* the record given to from_api_response
    payload_obj,        \* from_api_response's local `payload` (or what raised)
    returned_event,     \* what from_api_response returned or raised
    response,           \* the HTTP exchange of _fetch_events
    fetched,            \* what _fetch_events returned
    summary,            \* what get_event_summary returned or raised
    \* ---- batch conversion (convert_batch / _convert_to_models) ----
    conv_call,          \* which method is called
    cpc,                \* position of the call: "called" or "returned"
    self_model_type,    \* self.model_type of the converter / strategy
    batch_input,        \* the extracted_data argument
    now_readings,       \* what datetime.now() reads while each record converts
    batch_output,       \* what the call returned or raised
    \* ---- conversion of one record (converters / Repository) ----
    rop,                \* which function is applied to the record
    rpc,                \* position: "called", "converted", then the follow-up taken
    raw,                \* the input record
    readings,           \* what datetime.now() reads in the first and in the later call
    out1,               \* what the first conversion returned or raised
    out2,               \* what the later conversion returned or raised
    built,              \* what the Repository constructor returned or raised
    \* ---- one GitHubStrategy instance (crawl_* calls / _process_extraction_data) ----
    scall,              \* what runs on the instance: "crawl" calls or "_process_extraction_data"
    shared_model_type,  \* self.model_type of the instance
    method,             \* the crawl_* method of each call
    spc,                \* position of each call
    extraction,         \* what crawl_with_extraction returned to each call
    converted_as,       \* self.model_type as read by each call's conversion
    sresult             \* what each call returned or raised

batch_vars == << kind, items, concurrent_limit, sem_value, sem_waiters, tpc,
                 outcome, finished, bpc, processed_results, user_events >>

event_vars == << call, epc, event_data, payload_obj, returned_event, response,
                 fetched, summary >>

convert_vars == << conv_call, cpc, self_model_type, batch_input, now_readings,
                   batch_output >>

record_vars == << rop, rpc, raw, readings, out1, out2, built >>

strategy_vars == << scall, shared_model_type, method, spc, extraction, converted_as,
                    sresult >>

vars == << batch_vars, event_vars, convert_vars, record_vars, strategy_vars >>

(***************************************************************************)
(* Bounds of the model.                                                    *)
(***************************************************************************)
MaxUrls == 5
MaxUsers == 3
MaxLimit == 2
MaxRecords == 3
MaxBatch == 3

(***************************************************************************)
(* Batch run: inputs.                                                      *)
(***************************************************************************)
UrlPool == << "url1", "url2", "url3", "url4", "url5", "url6", "url7" >>
Usernames == { "alice", "bob" }

SeqsUpTo(S, n) == UNION { [1..k -> S] : k \in 0..n }

\* crawl: the urls are pairwise distinct (their identity never decides a branch);
\* events: any list of usernames, repetitions included.
BatchInputs ==
    { [kind |-> "crawl", items |-> SubSeq(UrlPool, 1, n)] : n \in 0..MaxUrls }
    \cup { [kind |-> "events", items |-> s] : s \in SeqsUpTo(Usernames, MaxUsers) }

Tasks == 1..Len(items)

\* Python None, and the values an operation can hand back.
PyNone == [py |-> "None", of |-> "", data |-> ""]
Content(item, d) == [py |-> "list", of |-> item, data |-> d]
ContentData == { "d1", "d2" }

\* How a gathered coroutine ends: it returns content, returns None, or raises.
NoOutcome == [ended |-> "pending", value |-> PyNone]
Returned(v) == [ended |-> "returned", value |-> v]
Raised == [ended |-> "raised", value |-> PyNone]

\* crawl_with_extraction / get_user_*_events on one item: extracted content or
\* None (both methods turn the exceptions of their try block into None); an
\* exception raised outside those try blocks escapes to the gathered task.
OpOutcomes(item) ==
    { Returned(Content(item, d)) : d \in ContentData } \cup { Returned(PyNone), Raised }

(***************************************************************************)
(* asyncio.Semaphore, as used by `async with semaphore`.                   *)
(***************************************************************************)
\* Semaphore.locked(): no permit left, or somebody already waits.
SemLockedBug(value, waiters) == value < 0
SemLocked(value, waiters) == value = 0 \/ waiters # << >>

InGate == { i \in Tasks : tpc[i] = "running" }

\* `async with semaphore` entered by task i: take a permit or queue up.  The
\* event loop gives the gathered tasks their first step in creation order.
Acquire(i) ==
    /\ bpc = "gathering"
    /\ tpc[i] = "created"
    /\ \A j \in 1..(i - 1) : tpc[j] # "created"
    /\ IF SemLocked(sem_value, sem_waiters)
         THEN /\ sem_waiters' = Append(sem_waiters, i)
              /\ tpc' = [tpc EXCEPT ![i] = "waiting"]
              /\ UNCHANGED sem_value
         ELSE /\ sem_value' = sem_value - 1
              /\ tpc' = [tpc EXCEPT ![i] = "running"]
              /\ UNCHANGED sem_waiters
    /\ UNCHANGED << kind, items, concurrent_limit, outcome, finished, bpc,
                    processed_results, user_events, event_vars, convert_vars,
                    record_vars, strategy_vars >>

\* Complete with a release that does not wake the first waiter: the permit
\* goes back to the counter and the waiters stay queued.
CompleteNoWake(i) ==
    /\ bpc = "gathering"
    /\ tpc[i] = "running"
    /\ \E o \in OpOutcomes(items[i]) :
         outcome' = [outcome EXCEPT ![i] = o]
    /\ finished' = Append(finished, i)
    /\ tpc' = [tpc EXCEPT ![i] = "done"]
    /\ sem_value' = sem_value + 1
    /\ UNCHANGED sem_waiters
    /\ UNCHANGED << kind, items, concurrent_limit, bpc, processed_results,
                    user_events, event_vars, convert_vars,
                    record_vars, strategy_vars >>

\* Complete without the release on the exception path: `async with` gives the
\* permit back only when the operation returned.
CompleteLeak(i) ==
    /\ bpc = "gathering"
    /\ tpc[i] = "running"
    /\ \E o \in OpOutcomes(items[i]) :
         outcome' = [outcome EXCEPT ![i] = o]
    /\ finished' = Append(finished, i)
    /\ IF outcome'[i].ended = "raised"
         THEN /\ tpc' = [tpc EXCEPT ![i] = "done"]
              /\ UNCHANGED << sem_value, sem_waiters >>
         ELSE IF sem_waiters # << >>
         THEN /\ tpc' = [tpc EXCEPT ![i] = "done", ![Head(sem_waiters)] = "running"]
              /\ sem_waiters' = Tail(sem_waiters)
              /\ sem_value' = (sem_value + 1) - 1
         ELSE /\ tpc' = [tpc EXCEPT ![i] = "done"]
              /\ sem_value' = sem_value + 1
              /\ UNCHANGED sem_waiters
    /\ UNCHANGED << kind, items, concurrent_limit, bpc, processed_results,
                    user_events, event_vars, convert_vars,
                    record_vars, strategy_vars >>

\* Complete with a retry: a task whose operation raised is put back to run
\* its operation again.
CompleteRetry(i) ==
    /\ bpc = "gathering"
    /\ tpc[i] = "running"
    /\ \E o \in OpOutcomes(items[i]) :
         outcome' = [outcome EXCEPT ![i] = o]
    /\ finished' = Append(finished, i)
    /\ LET again == IF outcome'[i].ended = "raised" THEN "created" ELSE "done"
       IN
       IF sem_waiters # << >>
         THEN /\ tpc' = [tpc EXCEPT ![i] = again, ![Head(sem_waiters)] = "running"]
              /\ sem_waiters' = Tail(sem_waiters)
              /\ sem_value' = (sem_value + 1) - 1
         ELSE /\ tpc' = [tpc EXCEPT ![i] = again]
              /\ sem_value' = sem_value + 1
              /\ UNCHANGED sem_waiters
    /\ UNCHANGED << kind, items, concurrent_limit, bpc, processed_results,
                    user_events, event_vars, convert_vars,
                    record_vars, strategy_vars >>

\* The operation of task i ends (returning or raising) and `async with` exits:
\* Semaphore.release() gives the permit back and wakes the first waiter, which
\* takes it at once.
Complete(i) ==
    /\ bpc = "gathering"
    /\ tpc[i] = "running"
    /\ \E o \in OpOutcomes(items[i]) :
         outcome' = [outcome EXCEPT ![i] = o]
    /\ finished' = Append(finished, i)
    /\ IF sem_waiters # << >>
         THEN /\ tpc' = [tpc EXCEPT ![i] = "done", ![Head(sem_waiters)] = "running"]
              /\ sem_waiters' = Tail(sem_waiters)
              /\ sem_value' = (sem_value + 1) - 1
         ELSE /\ tpc' = [tpc EXCEPT ![i] = "done"]
              /\ sem_value' = sem_value + 1
              /\ UNCHANGED sem_waiters
    /\ UNCHANGED << kind, items, concurrent_limit, bpc, processed_results,
                    user_events, event_vars, convert_vars,
                    record_vars, strategy_vars >>

(***************************************************************************)
(* asyncio.gather with return_exceptions=True, and the result loops.       *)
(***************************************************************************)
\* gather is done once every child is done ...
GatherDoneBug == finished # << >> \/ Tasks = {}
GatherDone == \A i \in Tasks : tpc[i] = "done"

\* ... and its result list follows the order of the arguments.
GatherResultsBug == [k \in 1..Len(finished) |-> outcome[finished[k]]]
GatherResults == [i \in Tasks |-> outcome[i]]

\* crawler.py 94-100: an exception becomes None, anything else is kept.
ProcessResultsBug(results) ==
    LET kept == SelectSeq(results, LAMBDA r : r.ended # "raised")
    IN [k \in 1..Len(kept) |-> kept[k].value]
RECURSIVE ProcessResults(_)
ProcessResults(results) ==
    IF results = << >> THEN << >>
    ELSE LET result == Head(results)
         IN << IF result.ended = "raised" THEN PyNone ELSE result.value >>
            \o ProcessResults(Tail(results))

\* github_api.py 261-268: an exception is skipped; a (username, events) pair is
\* stored under its username, later pairs overwriting earlier ones.  The
\* username of a pair is the one its coroutine was called with.
RECURSIVE CollectUserEvents(_, _, _)
CollectUserEvents(results, names, acc) ==
    IF results = << >> THEN acc
    ELSE LET result == Head(results)
             username == Head(names)
             next == IF result.ended = "raised" THEN acc
                     ELSE [u \in DOMAIN acc \cup {username} |->
                             IF u = username THEN result.value ELSE acc[u]]
         IN CollectUserEvents(Tail(results), Tail(names), next)

EmptyMap == [u \in {} |-> PyNone]

\* `await asyncio.gather(...)` resumes and the batch method returns.
Return ==
    /\ bpc = "gathering"
    /\ GatherDone
    /\ bpc' = "returned"
    /\ IF kind = "crawl"
         THEN /\ processed_results' = ProcessResults(GatherResults)
              /\ UNCHANGED user_events
         ELSE /\ user_events' = CollectUserEvents(GatherResults, items, EmptyMap)
              /\ UNCHANGED processed_results
    /\ UNCHANGED << kind, items, concurrent_limit, sem_value, sem_waiters, tpc,
                    outcome, finished, event_vars, convert_vars,
                    record_vars, strategy_vars >>


(***************************************************************************)
(* Python values of the event pipeline.  A value is a record tagged with   *)
(* its Python type; a dict is a function from its keys to values.          *)
(***************************************************************************)
VStr(x) == [py |-> "str", s |-> x]
VInt(x) == [py |-> "int", s |-> x]
VBool(x) == [py |-> "bool", s |-> x]
VNone == [py |-> "None", s |-> ""]
VDict(f) == [py |-> "dict", d |-> f]
VList(q) == [py |-> "list", d |-> q]
VDatetime(x) == [py |-> "datetime", s |-> x]
EmptyDict == [k \in {} |-> VNone]

\* dict.get(key, default)
Get(d, key, default) == IF key \in DOMAIN d THEN d[key] ELSE default

\* The outcome of a call: the value it returns, or the exception it raises.
Ok(v) == [raised |-> "", value |-> v]
Fail(e) == [raised |-> e, value |-> VNone]

\* d[key]: KeyError when the key is absent.
RequiredGet(d, key) == IF key \in DOMAIN d THEN Ok(d[key]) ELSE Fail("KeyError")

(***************************************************************************)
(* pydantic (v2, lax mode) validation of one value against an annotation.  *)
(***************************************************************************)
NumericStrs == { "0", "3", "7" }
DecimalStrs == { "0", "5", "12", "1024", "1234" }
BoolStrs == { "true", "false", "True", "False", "1", "0" }
Invalid == [py |-> "invalid", s |-> ""]

\* A formatted string f"{prefix}{v}".
Fmt(prefix, v) == [py |-> "str", s |-> prefix, of |-> v]

\* The strings pydantic's HttpUrl accepts: the URL literals of the model, and
\* a URL prefix formatted with a string.
UrlStrs ==
    { "https://github.com/unknown", "https://github.com/octo/etrace",
      "https://img/octo", "https://octo.dev" }
UrlPrefixes == { "https://github.com/" }
IsUrl(v) ==
    /\ v.py = "str"
    /\ IF "of" \in DOMAIN v THEN v.s \in UrlPrefixes /\ v.of.py = "str"
       ELSE v.s \in UrlStrs

Validate(ann, v) ==
    CASE ann = "str" -> IF v.py = "str" THEN v ELSE Invalid
      [] ann = "Optional[str]" -> IF v.py \in { "str", "None" } THEN v ELSE Invalid
      [] ann = "int" ->
           IF v.py = "int" THEN v
           ELSE IF v.py = "str" /\ v.s \in NumericStrs \cup DecimalStrs THEN VInt(v.s)
           ELSE Invalid
      [] ann = "Optional[int]" ->
           IF v.py \in { "int", "None" } THEN v
           ELSE IF v.py = "str" /\ v.s \in NumericStrs THEN VInt(v.s)
           ELSE Invalid
      [] ann = "bool" ->
           IF v.py = "bool" THEN v
           ELSE IF v.py = "str" /\ v.s \in BoolStrs
                  THEN VBool(IF v.s \in { "true", "True", "1" } THEN "True" ELSE "False")
           ELSE Invalid
      [] ann = "HttpUrl" -> IF IsUrl(v) THEN v ELSE Invalid
      [] ann = "Optional[HttpUrl]" -> IF v.py = "None" \/ IsUrl(v) THEN v ELSE Invalid
      [] ann = "datetime" -> IF v.py = "datetime" THEN v ELSE Invalid
      [] ann = "Optional[datetime]" -> IF v.py \in { "datetime", "None" } THEN v ELSE Invalid
      [] ann = "List[str]" ->
           IF v.py = "list" /\ \A i \in DOMAIN v.d : v.d[i].py = "str" THEN v ELSE Invalid
      [] ann = "Optional[RepositoryLanguage]" ->
           IF v.py \in { "RepositoryLanguage", "None" } THEN v ELSE Invalid
      [] ann = "Dict[str, int]" ->
           IF v.py = "dict" /\ \A k \in DOMAIN v.d : v.d[k].py = "int"
             THEN v ELSE Invalid
      [] ann = "Optional[bool]" -> IF v.py \in { "bool", "None" } THEN v ELSE Invalid
      [] ann = "Optional[list]" -> IF v.py \in { "list", "None" } THEN v ELSE Invalid
      [] ann = "Optional[dict]" -> IF v.py \in { "dict", "None" } THEN v ELSE Invalid
      [] OTHER -> Invalid

\* A declared field: its annotation, whether it is required, its default.
Req(ann) == [ann |-> ann, required |-> TRUE, default |-> VNone]
Opt(ann) == [ann |-> ann, required |-> FALSE, default |-> VNone]
Dflt(ann, v) == [ann |-> ann, required |-> FALSE, default |-> v]

\* Model(**kwargs): every declared field is validated (a missing required
\* field or an invalid value is a ValidationError); undeclared fields are kept
\* when the model's Config says extra = "allow" and ignored otherwise.
Construct(cls, schema, kwargs, allow_extra) ==
    IF \/ \E k \in DOMAIN schema : schema[k].required /\ k \notin DOMAIN kwargs
       \/ \E k \in DOMAIN schema \cap DOMAIN kwargs :
             Validate(schema[k].ann, kwargs[k]) = Invalid
      THEN Fail("ValidationError")
      ELSE Ok([cls |-> cls,
               fields |-> [k \in DOMAIN schema |->
                             IF k \in DOMAIN kwargs
                               THEN Validate(schema[k].ann, kwargs[k])
                               ELSE schema[k].default],
               extra |-> IF allow_extra
                           THEN [k \in DOMAIN kwargs \ DOMAIN schema |-> kwargs[k]]
                           ELSE EmptyDict])

\* Model(**x): x must be a mapping.
ConstructFrom(cls, schema, x, allow_extra) ==
    IF x.py # "dict" THEN Fail("TypeError")
    ELSE Construct(cls, schema, x.d, allow_extra)

(***************************************************************************)
(* event.py: the payload classes, EventActor and EventRepo.                *)
(***************************************************************************)
EventActorSchema ==
    [id |-> Req("int"), login |-> Req("str"), display_login |-> Opt("Optional[str]"),
     gravatar_id |-> Opt("Optional[str]"), url |-> Req("str"), avatar_url |-> Req("str")]

EventRepoSchema == [id |-> Req("int"), name |-> Req("str"), url |-> Req("str")]

\* Every payload class inherits `action` and Config.extra = "allow" from
\* EventPayload.
BaseFields == [action |-> Opt("Optional[str]")]

\* f overridden and extended by g
Merge(f, g) == [k \in DOMAIN f \cup DOMAIN g |-> IF k \in DOMAIN g THEN g[k] ELSE f[k]]

PayloadSchema(cls) ==
    Merge(BaseFields,
      CASE cls = "PushEventPayload" ->
             [push_id |-> Opt("Optional[int]"), size |-> Opt("Optional[int]"),
              distinct_size |-> Opt("Optional[int]"), ref |-> Opt("Optional[str]"),
              head |-> Opt("Optional[str]"), before |-> Opt("Optional[str]"),
              commits |-> Dflt("Optional[list]", VList(<< >>))]
        [] cls = "WatchEventPayload" -> [action |-> Dflt("str", VStr("started"))]
        [] cls = "CreateEventPayload" ->
             [ref |-> Opt("Optional[str]"), ref_type |-> Opt("Optional[str]"),
              master_branch |-> Opt("Optional[str]"), description |-> Opt("Optional[str]"),
              pusher_type |-> Opt("Optional[str]")]
        [] cls = "ForkEventPayload" -> [forkee |-> Opt("Optional[dict]")]
        [] cls = "IssuesEventPayload" -> [issue |-> Opt("Optional[dict]")]
        [] cls = "PullRequestEventPayload" ->
             [number |-> Opt("Optional[int]"), pull_request |-> Opt("Optional[dict]")]
        [] cls = "IssueCommentEventPayload" ->
             [issue |-> Opt("Optional[dict]"), comment |-> Opt("Optional[dict]")]
        [] cls = "CommitCommentEventPayload" -> [comment |-> Opt("Optional[dict]")]
        [] cls = "PullRequestReviewEventPayload" ->
             [pull_request |-> Opt("Optional[dict]"), review |-> Opt("Optional[dict]")]
        [] cls = "PullRequestReviewCommentEventPayload" ->
             [pull_request |-> Opt("Optional[dict]"), comment |-> Opt("Optional[dict]")]
        [] cls = "DeleteEventPayload" ->
             [ref |-> Opt("Optional[str]"), ref_type |-> Opt("Optional[str]"),
              pusher_type |-> Opt("Optional[str]")]
        [] cls = "ReleaseEventPayload" -> [release |-> Opt("Optional[dict]")]
        [] cls = "GollumEventPayload" -> [pages |-> Dflt("Optional[list]", VList(<< >>))]
        [] cls = "MemberEventPayload" -> [member |-> Opt("Optional[dict]")]
        [] cls = "PublicEventPayload" -> EmptyDict
        [] cls = "SponsorshipEventPayload" -> [sponsorship |-> Opt("Optional[dict]")]
        [] OTHER -> EmptyDict)

\* The if/elif chain of from_api_response: the class built for an event type.
PayloadClassBug(event_type) ==
    IF event_type = VStr("PushEvent") THEN "PushEventPayload"
    ELSE IF event_type = VStr("WatchEvent") THEN "WatchEventPayload"
    ELSE IF event_type = VStr("CreateEvent") THEN "CreateEventPayload"
    ELSE IF event_type = VStr("ForkEvent") THEN "ForkEventPayload"
    ELSE IF event_type = VStr("IssuesEvent") THEN "IssuesEventPayload"
    ELSE IF event_type = VStr("PullRequestEvent") THEN "PullRequestEventPayload"
    ELSE IF event_type = VStr("IssueCommentEvent") THEN "IssueCommentEventPayload"
    ELSE IF event_type = VStr("CommitCommentEvent") THEN "CommitCommentEventPayload"
    ELSE IF event_type = VStr("PullRequestReviewEvent") THEN "PullRequestReviewEventPayload"
    ELSE IF event_type = VStr("PullRequestReviewCommentEvent")
           THEN "PullRequestReviewEventPayload"
    ELSE IF event_type = VStr("DeleteEvent") THEN "DeleteEventPayload"
    ELSE IF event_type = VStr("ReleaseEvent") THEN "ReleaseEventPayload"
    ELSE IF event_type = VStr("GollumEvent") THEN "GollumEventPayload"
    ELSE IF event_type = VStr("MemberEvent") THEN "MemberEventPayload"
    ELSE IF event_type = VStr("PublicEvent") THEN "PublicEventPayload"
    ELSE IF event_type = VStr("SponsorshipEvent") THEN "SponsorshipEventPayload"
    ELSE "EventPayload"
PayloadClass(event_type) ==
    IF event_type = VStr("PushEvent") THEN "PushEventPayload"
    ELSE IF event_type = VStr("WatchEvent") THEN "WatchEventPayload"
    ELSE IF event_type = VStr("CreateEvent") THEN "CreateEventPayload"
    ELSE IF event_type = VStr("ForkEvent") THEN "ForkEventPayload"
    ELSE IF event_type = VStr("IssuesEvent") THEN "IssuesEventPayload"
    ELSE IF event_type = VStr("PullRequestEvent") THEN "PullRequestEventPayload"
    ELSE IF event_type = VStr("IssueCommentEvent") THEN "IssueCommentEventPayload"
    ELSE IF event_type = VStr("CommitCommentEvent") THEN "CommitCommentEventPayload"
    ELSE IF event_type = VStr("PullRequestReviewEvent") THEN "PullRequestReviewEventPayload"
    ELSE IF event_type = VStr("PullRequestReviewCommentEvent")
           THEN "PullRequestReviewCommentEventPayload"
    ELSE IF event_type = VStr("DeleteEvent") THEN "DeleteEventPayload"
    ELSE IF event_type = VStr("ReleaseEvent") THEN "ReleaseEventPayload"
    ELSE IF event_type = VStr("GollumEvent") THEN "GollumEventPayload"
    ELSE IF event_type = VStr("MemberEvent") THEN "MemberEventPayload"
    ELSE IF event_type = VStr("PublicEvent") THEN "PublicEventPayload"
    ELSE IF event_type = VStr("SponsorshipEvent") THEN "SponsorshipEventPayload"
    ELSE "EventPayload"

\* event.py 139-175: payload_data, event_type and the payload object.
BuildPayload(data) ==
    LET payload_data == Get(data, "payload", VDict(EmptyDict))
        event_type == Get(data, "type", VStr(""))
        cls == PayloadClass(event_type)
    IN ConstructFrom(cls, PayloadSchema(cls), payload_data, TRUE)


(***************************************************************************)
(* event.py: the Event class and Event.from_api_response.                  *)
(***************************************************************************)
\* The members of the Union annotating Event.payload, in declaration order.
PayloadUnion ==
    << "PushEventPayload", "WatchEventPayload", "CreateEventPayload", "ForkEventPayload",
       "IssuesEventPayload", "PullRequestEventPayload", "IssueCommentEventPayload",
       "CommitCommentEventPayload", "PullRequestReviewEventPayload",
       "PullRequestReviewCommentEventPayload", "DeleteEventPayload", "ReleaseEventPayload",
       "GollumEventPayload", "MemberEventPayload", "PublicEventPayload",
       "SponsorshipEventPayload", "EventPayload" >>

\* isinstance(obj, member): every payload class derives from EventPayload.
IsInstance(cls, member) == cls = member \/ member = "EventPayload"

\* pydantic validating a payload object against the Union: an instance of a
\* member class is accepted as it is, without being built again.
UnionValidate(obj) ==
    IF \E k \in DOMAIN PayloadUnion : IsInstance(obj.cls, PayloadUnion[k])
      THEN Ok(obj)
      ELSE Fail("ValidationError")

\* s.replace("Z", "+00:00") on the timestamps of the model.
ReplaceZ(x) == IF x = "2024-01-01T00:00:00Z" THEN "2024-01-01T00:00:00+00:00" ELSE x
IsoStrings == { "2024-01-01T00:00:00+00:00", "2024-01-01T00:00:00" }

\* datetime.fromisoformat(v.replace("Z", "+00:00"))
FromIsoformat(v) ==
    IF v.py # "str" THEN Fail("AttributeError")
    ELSE IF ReplaceZ(v.s) \in IsoStrings THEN Ok(VDatetime(ReplaceZ(v.s)))
    ELSE Fail("ValueError")

\* The first exception among argument evaluations, in evaluation order.
FirstRaised(args) ==
    LET bad == { k \in DOMAIN args : args[k].raised # "" }
    IN IF bad = {} THEN ""
       ELSE args[CHOOSE k \in bad : \A j \in bad : k <= j].raised

\* cls(id=..., type=..., actor=..., repo=..., payload=..., public=...,
\*     created_at=..., org=...): pydantic validates the Event's own fields.
EventInit(id, type, actor, repo, payload, public, created_at, org) ==
    LET p == UnionValidate(payload)
    IN IF \/ Validate("str", id) = Invalid
          \/ Validate("str", type) = Invalid
          \/ p.raised # ""
          \/ Validate("bool", public) = Invalid
          \/ Validate("Optional[dict]", org) = Invalid
         THEN Fail("ValidationError")
         ELSE Ok([cls |-> "Event",
                  fields |-> [id |-> id, type |-> type, actor |-> actor, repo |-> repo,
                              payload |-> p.value, public |-> Validate("bool", public),
                              created_at |-> created_at, org |-> org]])

\* Event.from_api_response(data), event.py 137-186.
from_api_response(data) ==
    LET payload == BuildPayload(data)
        id == RequiredGet(data, "id")
        type == RequiredGet(data, "type")
        actor_data == RequiredGet(data, "actor")
        actor == IF actor_data.raised # "" THEN actor_data
                 ELSE ConstructFrom("EventActor", EventActorSchema, actor_data.value, FALSE)
        repo_data == RequiredGet(data, "repo")
        repo == IF repo_data.raised # "" THEN repo_data
                ELSE ConstructFrom("EventRepo", EventRepoSchema, repo_data.value, FALSE)
        public == RequiredGet(data, "public")
        created_raw == RequiredGet(data, "created_at")
        created_at == IF created_raw.raised # "" THEN created_raw
                      ELSE FromIsoformat(created_raw.value)
        args == << payload, id, type, actor, repo, public, created_at >>
    IN IF FirstRaised(args) # "" THEN Fail(FirstRaised(args))
       ELSE EventInit(id.value, type.value, actor.value, repo.value, payload.value,
                      public.value, created_at.value, Get(data, "org", VNone))

(***************************************************************************)
(* github_api.py: GitHubAPIService._fetch_events.                          *)
(***************************************************************************)
\* github_api.py 197-204: one Event per record, a record whose assembly raises
\* is skipped.
RECURSIVE FetchLoopBug(_)
FetchLoopBug(data) ==
    IF data = << >> THEN << >>
    ELSE LET event == from_api_response(Head(data))
         IN IF event.raised # "" THEN << >>
            ELSE << event.value >> \o FetchLoopBug(Tail(data))
RECURSIVE FetchLoop(_)
FetchLoop(data) ==
    IF data = << >> THEN << >>
    ELSE LET event == from_api_response(Head(data))
         IN IF event.raised # "" THEN FetchLoop(Tail(data))
            ELSE << event.value >> \o FetchLoop(Tail(data))

\* _fetch_events on one HTTP exchange: the list of Events for a 200 response,
\* None for any other status and for an exception of the request.
fetch_events(resp) ==
    IF resp.exception THEN Ok(VNone)
    ELSE IF resp.status_code = 200 THEN Ok(VList(FetchLoop(resp.json)))
    ELSE Ok(VNone)

(***************************************************************************)
(* Python built-ins used by the converters.                                *)
(***************************************************************************)
\* bool(v) with every map, the empty one included, counted as true.
TruthyAnyDict(v) ==
    CASE v.py = "str" -> v.s # ""
      [] v.py = "None" -> FALSE
      [] v.py = "int" -> v.s # "0"
      [] v.py = "bool" -> v.s = "True"
      [] v.py = "dict" -> TRUE
      [] v.py = "list" -> v.d # << >>
      [] OTHER -> TRUE

\* bool(v)
Truthy(v) ==
    CASE v.py = "str" -> v.s # ""
      [] v.py = "None" -> FALSE
      [] v.py = "int" -> v.s # "0"
      [] v.py = "bool" -> v.s = "True"
      [] v.py = "dict" -> DOMAIN v.d # {}
      [] v.py = "list" -> v.d # << >>
      [] OTHER -> TRUE

\* a or b
PyOr(a, b) == IF Truthy(a) THEN a ELSE b

\* hash(v): a process-stable integer determined by v; TypeError for an
\* unhashable value.
Hash(v) ==
    IF v.py \in { "dict", "list" } THEN Fail("TypeError")
    ELSE Ok([py |-> "int", s |-> "hash", of |-> v])

\* str(v)
PyStr(v) ==
    CASE v.py = "str" -> v
      [] v.py = "int" -> [v EXCEPT !.py = "str"]
      [] v.py = "bool" -> VStr(v.s)
      [] v.py = "None" -> VStr("None")
      [] OTHER -> [py |-> "str", s |-> "repr", of |-> v]

\* s.replace(',', '') and s.strip() on the strings of the model.
RemoveCommas(x) ==
    CASE x = "1,234" -> "1234"
      [] x = "1,024" -> "1024"
      [] OTHER -> x
Strip(x) ==
    CASE x = " 12 " -> "12"
      [] x = "  " -> ""
      [] OTHER -> x

\* v.replace(',', '') for a str v
ReplaceCommas(v) == IF "of" \in DOMAIN v THEN v ELSE VStr(RemoveCommas(v.s))

\* int(v)
PyInt(v) ==
    CASE v.py = "int" -> Ok(v)
      [] v.py = "bool" -> Ok(VInt(IF v.s = "True" THEN "1" ELSE "0"))
      [] v.py = "str" ->
           IF "of" \notin DOMAIN v /\ Strip(v.s) \in DecimalStrs
             THEN Ok(VInt(Strip(v.s)))
             ELSE Fail("ValueError")
      [] OTHER -> Fail("TypeError")

\* datetime.now(): the clock reading of the call.
Now(clock) == VDatetime(clock)
Clock == { "now1", "now2" }

(***************************************************************************)
(* converters.py: UserProfileConverter and RepositoryConverter.            *)
(***************************************************************************)
\* int(data.get(key, '0') or '0')
StatInt(d, key) == PyInt(PyOr(Get(d, key, VStr("0")), VStr("0")))

\* UserProfileConverter.convert(data), converters.py 30-69 (the same code as
\* GitHubStrategy._convert_user_profile_data, github_strategy.py 119-159).
UserProfileConvert(data, clock) ==
    IF data.py # "dict" THEN Fail("AttributeError")
    ELSE
    LET d == data.d
        username0 == Get(d, "username", VStr(""))
        username == IF ~Truthy(username0)
                      THEN Get(d, "login", Get(d, "name", VStr("unknown")))
                      ELSE username0
        followers == StatInt(d, "followers")
        following == StatInt(d, "following")
        public_repos == StatInt(d, "public_repos")
        public_gists == StatInt(d, "public_gists")
        stats == << followers, following, public_repos, public_gists >>
    IN IF FirstRaised(stats) # "" THEN Fail(FirstRaised(stats))
       ELSE Ok(VDict(
         [id |-> username,
          username |-> username,
          name |-> Get(d, "display_name", VStr("")),
          bio |-> Get(d, "bio", VStr("")),
          avatar_url |-> PyOr(Get(d, "avatar_url", VNone), VNone),
          gravatar_id |-> VStr(""),
          location |-> Get(d, "location", VStr("")),
          company |-> Get(d, "company", VStr("")),
          hireable |-> VBool("True"),
          created_at |-> Now(clock),
          updated_at |-> Now(clock),
          type |-> Get(d, "account_type", VStr("User")),
          site_admin |-> VBool("False"),
          social_links |-> VDict([website |-> Get(d, "website", VNone),
                                  twitter |-> Get(d, "twitter", VNone),
                                  email |-> Get(d, "email", VNone)]),
          stats |-> VDict([followers |-> followers.value,
                           following |-> following.value,
                           public_repos |-> public_repos.value,
                           public_gists |-> public_gists.value,
                           private_repos |-> VInt("0"),
                           owned_private_repos |-> VInt("0"),
                           total_private_repos |-> VInt("0"),
                           collaborators |-> VInt("0")]),
          html_url |-> Fmt("https://github.com/", username),
          organizations |-> VList(<< >>)]))

\* int(str(data.get(key, '0')).replace(',', '') or '0')
CountInt(d, key) ==
    PyInt(PyOr(ReplaceCommas(PyStr(Get(d, key, VStr("0")))), VStr("0")))

\* RepositoryConverter.convert(data), converters.py 76-136.  The default
\* argument of a dict.get is evaluated whether or not the key is present.
RepositoryConvert(data, clock) ==
    IF data.py # "dict" THEN Fail("AttributeError")
    ELSE
    LET d == data.d
        html_url == PyOr(Get(d, "html_url", VStr("")),
                         PyOr(Get(d, "url", VStr("")), VStr("https://github.com/unknown")))
        clone_url == PyOr(Get(d, "clone_url", VStr("")), html_url)
        owner_data == Get(d, "owner", VDict(EmptyDict))
        o == IF owner_data.py = "dict" THEN owner_data.d ELSE EmptyDict
        owner_login == PyOr(Get(o, "login", VStr("")),
                            PyOr(Get(d, "owner_username", VStr("")), VStr("unknown")))
        owner_avatar_url == PyOr(Get(o, "avatar_url", VStr("")), VNone)
        owner_html_url == PyOr(Get(o, "html_url", VStr("")),
                               Fmt("https://github.com/", owner_login))
        language == PyOr(Get(d, "language", VStr("")), VNone)
        name_hash == Hash(Get(d, "name", VStr("unknown")))
        stars == CountInt(d, "stars")
        watchers == CountInt(d, "watchers")
        forks == CountInt(d, "forks")
        steps == << IF owner_data.py = "dict" THEN Ok(VNone) ELSE Fail("AttributeError"),
                    name_hash, stars, watchers, forks >>
    IN IF FirstRaised(steps) # "" THEN Fail(FirstRaised(steps))
       ELSE Ok(VDict(
         [id |-> PyStr(Get(d, "id", name_hash.value)),
          node_id |-> Get(d, "node_id", Fmt("R_", Get(d, "id", name_hash.value))),
          name |-> Get(d, "name", VStr("")),
          full_name |-> Get(d, "full_name", Get(d, "name", VStr(""))),
          description |-> Get(d, "description", VStr("")),
          private |-> Get(d, "private", VBool("False")),
          url |-> html_url,
          html_url |-> html_url,
          clone_url |-> IF clone_url # VStr("https://github.com/unknown")
                          THEN clone_url ELSE VNone,
          created_at |-> Get(d, "created_at", Now(clock)),
          updated_at |-> Get(d, "updated_at", Now(clock)),
          pushed_at |-> Get(d, "pushed_at", Now(clock)),
          size |-> Get(d, "size", VInt("0")),
          stargazers_count |-> Get(d, "stargazers_count", stars.value),
          watchers_count |-> Get(d, "watchers_count", watchers.value),
          language |-> language,
          forks_count |-> Get(d, "forks_count", forks.value),
          archived |-> Get(d, "archived", VBool("False")),
          disabled |-> Get(d, "disabled", VBool("False")),
          open_issues_count |-> Get(d, "open_issues_count", VInt("0")),
          license |-> Get(d, "license", VNone),
          allow_forking |-> Get(d, "allow_forking", VBool("True")),
          is_template |-> Get(d, "is_template", VBool("False")),
          visibility |-> Get(d, "visibility", VStr("public")),
          default_branch |-> Get(d, "default_branch", VStr("main")),
          owner |-> VDict([username |-> owner_login,
                           login |-> owner_login,
                           type |-> Get(o, "type", VStr("User")),
                           avatar_url |-> owner_avatar_url,
                           html_url |-> owner_html_url]),
          topics |-> VDict([topics |-> Get(d, "topics", VList(<< >>))]),
          stats |-> Get(d, "stats",
                        VDict([stargazers_count |-> Get(d, "stargazers_count", stars.value),
                               watchers_count |-> Get(d, "watchers_count", watchers.value),
                               forks_count |-> Get(d, "forks_count", forks.value),
                               open_issues_count |-> Get(d, "open_issues_count", VInt("0")),
                               network_count |-> Get(d, "network_count", VInt("0")),
                               subscribers_count |-> Get(d, "subscribers_count", VInt("0"))]))]))

\* DataConverter.convert_extraction_to_domain, converters.py 14-23.  ModelType
\* (enums.py 7-11) has no member EVENT, so evaluating ModelType.EVENT for a
\* model type that is neither USER_PROFILE nor REPOSITORY is an AttributeError.
convert_extraction_to_domain(data, model_type, clock) ==
    IF model_type = "USER_PROFILE" THEN UserProfileConvert(data, clock)
    ELSE IF model_type = "REPOSITORY" THEN RepositoryConvert(data, clock)
    ELSE Fail("AttributeError")

\* SchemaToModelConverter.convert_batch, converters.py 175-187.
RECURSIVE convert_batch_abort(_, _, _)
convert_batch_abort(extracted_data, model_type, clocks) ==
    IF extracted_data = << >> THEN Ok(<< >>)
    ELSE LET converted == convert_extraction_to_domain(Head(extracted_data), model_type,
                                                       Head(clocks))
             rest == convert_batch_abort(Tail(extracted_data), model_type, Tail(clocks))
         IN IF converted.raised # "" THEN converted
            ELSE IF rest.raised # "" THEN rest
            ELSE Ok(<< converted.value >> \o rest.value)
RECURSIVE convert_batch(_, _, _)
convert_batch(extracted_data, model_type, clocks) ==
    IF extracted_data = << >> THEN Ok(<< >>)
    ELSE LET converted == convert_extraction_to_domain(Head(extracted_data), model_type,
                                                       Head(clocks))
             rest == convert_batch(Tail(extracted_data), model_type, Tail(clocks))
         IN IF converted.raised # "" THEN rest
            ELSE Ok(<< converted.value >> \o rest.value)


(***************************************************************************)
(* The domain classes UserProfile (user.py) and Repository (repository.py).*)
(***************************************************************************)
\* The classes of user.py derive from base.BaseModel, whose
\* get_extraction_instruction is abstract; those that do not define it cannot
\* be instantiated (TypeError).
AbstractClasses == { "UserSocialLinks", "UserStats", "UserOrganization" }

\* pydantic validating v for a field annotated with a model class.
NestedModel(cls, schema, v) ==
    IF v.py # "dict" THEN Fail("ValidationError")
    ELSE LET c == Construct(cls, schema, v.d, FALSE)
         IN IF c.raised # "" THEN c
            ELSE IF cls \in AbstractClasses THEN Fail("TypeError")
            ELSE c

\* The field's value, or what its default_factory (the class itself) builds.
NestedField(cls, schema, kwargs, key) ==
    NestedModel(cls, schema, Get(kwargs, key, VDict(EmptyDict)))

\* The `before` validator parse_datetime (user.py 91-100, repository.py
\* 120-129): a string that is not ISO-8601 becomes the current time.
parse_datetime(v, clock) ==
    IF v.py = "str"
      THEN IF "of" \notin DOMAIN v /\ FromIsoformat(v).raised = ""
             THEN FromIsoformat(v).value
             ELSE Now(clock)
      ELSE v

\* lang.value for lang in RepositoryLanguage (enums.py 38-57).
RepositoryLanguage ==
    { "python", "javascript", "typescript", "java", "go", "rust", "cpp", "c",
      "csharp", "php", "ruby", "swift", "kotlin", "dart", "html", "css", "shell",
      "other" }
Language(x) == [py |-> "RepositoryLanguage", s |-> x]

\* x.lower() on the strings of the model; two strings have the same upper()
\* exactly when they have the same lower().
Lower(x) ==
    CASE x \in { "Python", "PYTHON" } -> "python"
      [] x = "Go" -> "go"
      [] OTHER -> x

\* validate_language without its test for an empty or blank string.
validate_language_noblank(v) ==
    IF v.py = "str"
      THEN IF "of" \notin DOMAIN v /\ Lower(v.s) \in RepositoryLanguage
             THEN Language(Lower(v.s))
           ELSE Language("other")
      ELSE v

\* The `before` validator validate_language, repository.py 104-117.
validate_language(v) ==
    IF v.py = "str"
      THEN IF "of" \notin DOMAIN v /\ (v.s = "" \/ Strip(v.s) = "") THEN VNone
           ELSE IF "of" \notin DOMAIN v /\ Lower(v.s) \in RepositoryLanguage
                  THEN Language(Lower(v.s))
           ELSE Language("other")
      ELSE v

UserSocialLinksSchema ==
    [website |-> Opt("Optional[HttpUrl]"), blog |-> Opt("Optional[HttpUrl]"),
     twitter |-> Opt("Optional[str]"), linkedin |-> Opt("Optional[str]"),
     email |-> Opt("Optional[str]")]

UserStatsSchema ==
    [k \in { "followers", "following", "public_repos", "public_gists", "private_repos",
             "owned_private_repos", "total_private_repos", "collaborators" } |->
       Dflt("int", VInt("0"))]

\* The fields of UserProfile that are not model classes, user.py 50-89.
UserProfileSchema ==
    [id |-> Req("str"), username |-> Req("str"), name |-> Opt("Optional[str]"),
     bio |-> Opt("Optional[str]"), avatar_url |-> Opt("Optional[HttpUrl]"),
     gravatar_id |-> Opt("Optional[str]"), location |-> Opt("Optional[str]"),
     company |-> Opt("Optional[str]"), type |-> Dflt("str", VStr("User")),
     site_admin |-> Dflt("bool", VBool("False")), hireable |-> Opt("Optional[bool]"),
     html_url |-> Req("HttpUrl"), repos_url |-> Opt("Optional[HttpUrl]"),
     gists_url |-> Opt("Optional[str]"), starred_url |-> Opt("Optional[str]"),
     subscriptions_url |-> Opt("Optional[HttpUrl]"),
     organizations_url |-> Opt("Optional[HttpUrl]"), events_url |-> Opt("Optional[str]"),
     created_at |-> Req("datetime"), updated_at |-> Req("datetime"),
     plan |-> Opt("Optional[str]")]

\* kwargs with the `before` validators of the class applied.
Before(kwargs, datetime_fields, language_fields, clock) ==
    [k \in DOMAIN kwargs |->
       IF k \in datetime_fields THEN parse_datetime(kwargs[k], clock)
       ELSE IF k \in language_fields THEN validate_language(kwargs[k])
       ELSE kwargs[k]]

\* An exception that is not a validation error leaves the constructor as it
\* is; validation errors are collected and raised as one ValidationError.
Raises(outcomes) ==
    IF \E k \in DOMAIN outcomes : outcomes[k].raised \notin { "", "ValidationError" }
      THEN FirstRaised([k \in DOMAIN outcomes |->
                          IF outcomes[k].raised = "ValidationError" THEN Ok(VNone)
                          ELSE outcomes[k]])
      ELSE FirstRaised(outcomes)

\* UserProfile(**kwargs), user.py 46-100.  organizations (a list of
\* UserOrganization) is validated element by element.
UserProfileInit(kwargs, clock) ==
    LET own == Construct("UserProfile", UserProfileSchema,
                         Before(kwargs, { "created_at", "updated_at" }, {}, clock), FALSE)
        social_links == NestedField("UserSocialLinks", UserSocialLinksSchema, kwargs, "social_links")
        stats == NestedField("UserStats", UserStatsSchema, kwargs, "stats")
        organizations == Get(kwargs, "organizations", VList(<< >>))
        orgs == IF organizations.py # "list" THEN Fail("ValidationError")
                ELSE IF organizations.d = << >> THEN Ok(organizations)
                ELSE NestedModel("UserOrganization", [login |-> Req("str")],
                                 organizations.d[1])
        outcomes == << own, social_links, stats, orgs >>
    IN IF Raises(outcomes) # "" THEN Fail(Raises(outcomes))
       ELSE Ok([own.value EXCEPT !.fields =
                  Merge(@, [social_links |-> social_links.value, stats |-> stats.value,
                            organizations |-> orgs.value])])

RepositoryOwnerSchema ==
    [username |-> Req("str"), avatar_url |-> Opt("Optional[HttpUrl]"),
     type |-> Dflt("str", VStr("User")), profile_url |-> Opt("Optional[HttpUrl]")]

RepositoryLicenseSchema ==
    [key |-> Req("str"), name |-> Req("str"), spdx_id |-> Opt("Optional[str]"),
     url |-> Opt("Optional[HttpUrl]")]

RepositoryStatsSchema ==
    [k \in { "stars", "forks", "watchers", "open_issues", "open_pull_requests",
             "contributors", "commits", "branches", "releases" } |->
       Dflt("int", VInt("0"))]

RepositoryTopicsSchema == [topics |-> Dflt("List[str]", VList(<< >>))]

\* The fields of Repository that are not model classes, repository.py 59-98.
RepositorySchema ==
    [id |-> Req("str"), name |-> Req("str"), full_name |-> Req("str"),
     description |-> Opt("Optional[str]"), url |-> Req("HttpUrl"),
     clone_url |-> Opt("Optional[HttpUrl]"), ssh_url |-> Opt("Optional[str]"),
     homepage |-> Opt("Optional[str]"), private |-> Dflt("bool", VBool("False")),
     fork |-> Dflt("bool", VBool("False")), archived |-> Dflt("bool", VBool("False")),
     disabled |-> Dflt("bool", VBool("False")), template |-> Dflt("bool", VBool("False")),
     language |-> Opt("Optional[RepositoryLanguage]"),
     languages |-> Dflt("Dict[str, int]", VDict(EmptyDict)), size |-> Dflt("int", VInt("0")),
     default_branch |-> Dflt("str", VStr("main")),
     created_at |-> Req("datetime"), updated_at |-> Req("datetime"),
     pushed_at |-> Opt("Optional[datetime]"),
     is_fork_enhanced |-> Dflt("bool", VBool("False")),
     parent_full_name |-> Opt("Optional[str]")]

\* Repository(**kwargs), repository.py 55-129.
RepositoryInit(kwargs, clock) ==
    LET own == Construct("Repository", RepositorySchema,
                         Before(kwargs, { "created_at", "updated_at", "pushed_at" },
                                { "language" }, clock), FALSE)
        owner == IF "owner" \in DOMAIN kwargs
                   THEN NestedModel("RepositoryOwner", RepositoryOwnerSchema, kwargs.owner)
                   ELSE Fail("ValidationError")
        license == IF Get(kwargs, "license", VNone) = VNone THEN Ok(VNone)
                   ELSE NestedModel("RepositoryLicense", RepositoryLicenseSchema, kwargs.license)
        topics == NestedField("RepositoryTopics", RepositoryTopicsSchema, kwargs, "topics")
        stats == NestedField("RepositoryStats", RepositoryStatsSchema, kwargs, "stats")
        outcomes == << own, owner, license, topics, stats >>
    IN IF Raises(outcomes) # "" THEN Fail(Raises(outcomes))
       ELSE Ok([own.value EXCEPT !.fields =
                  Merge(@, [owner |-> owner.value, license |-> license.value,
                            topics |-> topics.value, stats |-> stats.value])])

(***************************************************************************)
(* github_strategy.py: conversion of extracted records to domain objects.  *)
(***************************************************************************)
\* BUSINESS_MODEL_MAP, schema_mapping.py 21-25.
BUSINESS_MODEL_MAP ==
    [ACTIVITY |-> "Activity", REPOSITORY |-> "Repository", USER_PROFILE |-> "UserProfile"]

\* get_business_model, schema_mapping.py 42-46.
get_business_model(model_type) ==
    IF model_type \notin DOMAIN BUSINESS_MODEL_MAP THEN Fail("ValueError")
    ELSE Ok(VStr(BUSINESS_MODEL_MAP[model_type]))

\* GitHubStrategy._convert_repository_data, github_strategy.py 161-204.
convert_repository_data(data, clock) ==
    IF data.py # "dict" THEN Fail("AttributeError")
    ELSE
    LET d == data.d
        name_hash == Hash(Get(d, "name", VStr("unknown")))
        stars == CountInt(d, "stars")
        watchers == CountInt(d, "watchers")
        forks == CountInt(d, "forks")
        steps == << name_hash, stars, watchers, forks >>
    IN IF FirstRaised(steps) # "" THEN Fail(FirstRaised(steps))
       ELSE Ok(VDict(
         [id |-> PyStr(name_hash.value),
          node_id |-> Fmt("R_", name_hash.value),
          name |-> Get(d, "name", VStr("")),
          full_name |-> Get(d, "full_name", Get(d, "name", VStr(""))),
          description |-> Get(d, "description", VStr("")),
          private |-> VBool("False"),
          html_url |-> Get(d, "url", VStr("")),
          clone_url |-> Get(d, "url", VStr("")),
          created_at |-> Now(clock),
          updated_at |-> Now(clock),
          pushed_at |-> Now(clock),
          size |-> VInt("0"),
          stargazers_count |-> stars.value,
          watchers_count |-> watchers.value,
          language |-> Get(d, "language", VStr("")),
          forks_count |-> forks.value,
          archived |-> VBool("False"),
          disabled |-> VBool("False"),
          open_issues_count |-> VInt("0"),
          license |-> VNone,
          allow_forking |-> VBool("True"),
          is_template |-> VBool("False"),
          visibility |-> VStr("public"),
          default_branch |-> VStr("main"),
          owner |-> VDict([login |-> Get(d, "owner_username", VStr("")),
                           type |-> Get(d, "owner_type", VStr("User")),
                           avatar_url |-> VStr(""),
                           html_url |-> VStr("")]),
          topics |-> VList(<< >>),
          stats |-> VDict([stargazers_count |-> stars.value,
                           watchers_count |-> watchers.value,
                           forks_count |-> forks.value,
                           open_issues_count |-> VInt("0"),
                           network_count |-> VInt("0"),
                           subscribers_count |-> VInt("0")])]))

\* GitHubStrategy._convert_extraction_to_business_data, github_strategy.py
\* 108-117; _convert_user_profile_data (119-159) is the code of
\* UserProfileConverter.convert.  A model type that is neither USER_PROFILE
\* nor REPOSITORY reaches ModelType.EVENT, an AttributeError.
convert_extraction_to_business_data(data, model_type, clock) ==
    IF model_type = "USER_PROFILE" THEN UserProfileConvert(data, clock)
    ELSE IF model_type = "REPOSITORY" THEN convert_repository_data(data, clock)
    ELSE Fail("AttributeError")

\* business_model_class(**converted_data)
ModelInit(business_model_class, converted_data, clock) ==
    IF business_model_class = "UserProfile" THEN UserProfileInit(converted_data.d, clock)
    ELSE IF business_model_class = "Repository" THEN RepositoryInit(converted_data.d, clock)
    ELSE Fail("ValidationError")

\* One pass of the loop body of _convert_to_models, lines 51-55.
ConvertOne(data, model_type, business_model_class, clock) ==
    LET converted_data == convert_extraction_to_business_data(data, model_type, clock)
    IN IF converted_data.raised # "" THEN converted_data
       ELSE ModelInit(business_model_class, converted_data.value, clock)

\* The loop of _convert_to_models, github_strategy.py 50-58.
RECURSIVE ConvertLoop(_, _, _, _)
ConvertLoop(extracted_data, model_type, business_model_class, clocks) ==
    IF extracted_data = << >> THEN << >>
    ELSE LET model_instance == ConvertOne(Head(extracted_data), model_type,
                                          business_model_class, Head(clocks))
             rest == ConvertLoop(Tail(extracted_data), model_type,
                                 business_model_class, Tail(clocks))
         IN IF model_instance.raised # "" THEN rest
            ELSE << model_instance.value >> \o rest

\* GitHubStrategy._convert_to_models, github_strategy.py 45-60.
convert_to_models(extracted_data, model_type, clocks) ==
    LET business_model_class == get_business_model(model_type)
    IN IF business_model_class.raised # "" THEN Fail(business_model_class.raised)
       ELSE Ok(ConvertLoop(extracted_data, model_type, business_model_class.value.s, clocks))

(***************************************************************************)
(* Inputs and state machine of batch conversion.                           *)
(***************************************************************************)
\* ModelType, enums.py 7-11.
ModelType == { "ACTIVITY", "REPOSITORY", "USER_PROFILE" }

\* Extraction records: maps of strings, and one element that is not a map.
BatchRecords ==
    { VDict(([username |-> VStr("octo"), followers |-> VStr("12"),
                      website |-> VStr("https://octo.dev")])),
      VDict(([login |-> VStr("octo"), followers |-> VStr("1,024")])),
      VDict(([name |-> VStr("etrace"), url |-> VStr("https://github.com/octo/etrace"),
                      stars |-> VStr("1,234"), language |-> VStr("Python"),
                      owner_username |-> VStr("octo")])),
      VDict(([name |-> VStr("etrace"), stars |-> VStr("abc")])),
      VDict(([name |-> VStr("etrace"), owner |-> VStr("octo")])),
      VStr("oops") }

ConvertCalls == { "convert_batch", "_convert_to_models" }

ConvertIdle ==
    /\ cpc = "idle" /\ conv_call = "" /\ self_model_type = "" /\ batch_input = << >>
    /\ now_readings = << >> /\ batch_output = Ok(VNone)

ConvertInitStates ==
    /\ cpc = "called"
    /\ conv_call \in ConvertCalls
    /\ self_model_type \in ModelType
    /\ batch_input \in SeqsUpTo(BatchRecords, MaxBatch)
    /\ now_readings \in [DOMAIN batch_input -> Clock]
    /\ batch_output = Ok(VNone)

\* convert_batch storing each converted record over the input list.
ConvertBatchInPlace ==
    /\ cpc = "called" /\ conv_call = "convert_batch"
    /\ batch_output' = convert_batch(batch_input, self_model_type, now_readings)
    /\ batch_input' = batch_output'.value
    /\ cpc' = "returned"
    /\ UNCHANGED << conv_call, self_model_type, now_readings,
                    batch_vars, event_vars, record_vars, strategy_vars >>

\* SchemaToModelConverter(model_type).convert_batch(extracted_data)
ConvertBatch ==
    /\ cpc = "called" /\ conv_call = "convert_batch"
    /\ batch_output' = convert_batch(batch_input, self_model_type, now_readings)
    /\ cpc' = "returned"
    /\ UNCHANGED << conv_call, self_model_type, batch_input, now_readings,
                    batch_vars, event_vars, record_vars, strategy_vars >>

\* strategy._convert_to_models(extracted_data)
ConvertToModels ==
    /\ cpc = "called" /\ conv_call = "_convert_to_models"
    /\ batch_output' = convert_to_models(batch_input, self_model_type, now_readings)
    /\ cpc' = "returned"
    /\ UNCHANGED << conv_call, self_model_type, batch_input, now_readings,
                    batch_vars, event_vars, record_vars, strategy_vars >>

ConvertNext == ConvertBatch \/ ConvertToModels

(***************************************************************************)
(* Inputs of the event pipeline.                                           *)
(***************************************************************************)
Absent == [py |-> "absent", s |-> ""]

\* The dict holding the keys of f whose value is not Absent.
MakeDict(f) == [k \in { k \in DOMAIN f : f[k] # Absent } |-> f[k]]

KnownEventTypes ==
    { "PushEvent", "WatchEvent", "CreateEvent", "ForkEvent", "IssuesEvent",
      "PullRequestEvent", "IssueCommentEvent", "CommitCommentEvent",
      "PullRequestReviewEvent", "PullRequestReviewCommentEvent", "DeleteEvent",
      "ReleaseEvent", "GollumEvent", "MemberEvent", "PublicEvent", "SponsorshipEvent" }
UnknownEventTypes == { "FutureEvent", "pushevent" }

GoodActor ==
    VDict([id |-> VInt("7"), login |-> VStr("octo"), url |-> VStr("https://api/u/octo"),
           avatar_url |-> VStr("https://img/octo")])
BadActor == VDict([id |-> VInt("7"), url |-> VStr("https://api/u/octo")])
GoodRepo ==
    VDict([id |-> VInt("3"), name |-> VStr("octo/etrace"), url |-> VStr("https://api/r/3")])
GoodTime == VStr("2024-01-01T00:00:00Z")
BadTime == VStr("yesterday")

PayloadOpts ==
    { Absent, VNone } \cup
    { VDict(MakeDict([action |-> a, size |-> z, zzz_new |-> x])) :
        a \in { Absent, VStr("opened"), VNone, VInt("5") },
        z \in { Absent, VInt("3"), VStr("abc") },
        x \in { Absent, VDict([n |-> VInt("7")]) } }

Records ==
    { MakeDict([id |-> i, type |-> t, actor |-> a, repo |-> r, payload |-> p,
                public |-> b, created_at |-> c]) :
        i \in { Absent, VStr("1") },
        t \in { Absent } \cup { VStr(x) : x \in KnownEventTypes \cup UnknownEventTypes },
        a \in { Absent, GoodActor, BadActor },
        r \in { Absent, GoodRepo },
        p \in PayloadOpts,
        b \in { Absent, VBool("True") },
        c \in { Absent, GoodTime, BadTime } }

\* Records of an API response: complete ones of two types and two ids, and
\* three malformed ones.
GoodRecord(i, t) ==
    [id |-> VStr(i), type |-> VStr(t), actor |-> GoodActor, repo |-> GoodRepo,
     payload |-> VDict(EmptyDict), public |-> VBool("True"), created_at |-> GoodTime]
FetchRecords ==
    { GoodRecord(i, t) : i \in { "1", "2" }, t \in { "PushEvent", "FutureEvent" } }
    \cup { MakeDict([GoodRecord("1", "PushEvent") EXCEPT !.id = Absent]),
           [GoodRecord("2", "WatchEvent") EXCEPT !.actor = BadActor],
           [GoodRecord("1", "FutureEvent") EXCEPT !.created_at = BadTime] }

Responses ==
    { [exception |-> FALSE, status_code |-> 200, json |-> body] :
        body \in SeqsUpTo(FetchRecords, MaxRecords) }
    \cup { [exception |-> FALSE, status_code |-> c, json |-> << >>] : c \in { 403, 404, 500 } }
    \cup { [exception |-> TRUE, status_code |-> 0, json |-> << >>] }

NoResponse == [exception |-> FALSE, status_code |-> 0, json |-> << >>]

\* Event.get_event_summary, event.py 188-253.  hasattr / getattr see the
\* declared fields of the payload and, under extra = "allow", its extra ones.
get_event_summary(event) ==
    LET type == event.fields["type"]
        actor_name == event.fields["actor"].fields["login"]
        repo_name == event.fields["repo"].fields["name"]
        payload == event.fields["payload"]
        HasAttr(k) == k \in DOMAIN payload.fields \/ k \in DOMAIN payload.extra
        GetAttr(k, default) ==
            IF k \in DOMAIN payload.fields THEN payload.fields[k]
            ELSE IF k \in DOMAIN payload.extra THEN payload.extra[k]
            ELSE default
        Len_(v) == IF v.py \in { "list", "dict", "str" }
                     THEN Ok(VInt(ToString(IF v.py = "list" THEN Len(v.d)
                                           ELSE IF v.py = "dict" THEN Cardinality(DOMAIN v.d)
                                           ELSE 1)))
                     ELSE Fail("TypeError")
        \* " #" + x.get('number', '') for a truthy attribute x, "" otherwise
        Number(k) ==
            IF HasAttr(k) /\ Truthy(GetAttr(k, VNone))
              THEN IF GetAttr(k, VNone).py # "dict" THEN Fail("AttributeError")
                   ELSE Ok(Fmt(" #", Get(GetAttr(k, VNone).d, "number", VStr(""))))
              ELSE Ok(VStr(""))
        Nested(k, key) ==
            IF HasAttr(k) /\ Truthy(GetAttr(k, VNone))
              THEN IF GetAttr(k, VNone).py # "dict" THEN Fail("AttributeError")
                   ELSE Ok(Get(GetAttr(k, VNone).d, key, VStr("")))
              ELSE Ok(VStr(""))
        Text(template, parts) ==
            IF FirstRaised(parts) # "" THEN Fail(FirstRaised(parts))
            ELSE Ok(Fmt(template, [i \in DOMAIN parts |-> parts[i].value]))
        t == type.s
    IN CASE t = "PushEvent" ->
              Text("{actor_name} pushed {commits_count} commit(s) to {repo_name}",
                   << Ok(actor_name),
                      IF HasAttr("commits") /\ Truthy(GetAttr("commits", VNone))
                        THEN Len_(GetAttr("commits", VNone)) ELSE Ok(VInt("0")),
                      Ok(repo_name) >>)
         [] t = "WatchEvent" ->
              Text("{actor_name} starred {repo_name}", << Ok(actor_name), Ok(repo_name) >>)
         [] t = "CreateEvent" ->
              Text("{actor_name} created {ref_type} in {repo_name}",
                   << Ok(actor_name), Ok(GetAttr("ref_type", VStr("repository"))),
                      Ok(repo_name) >>)
         [] t = "ForkEvent" ->
              Text("{actor_name} forked {repo_name}", << Ok(actor_name), Ok(repo_name) >>)
         [] t = "IssuesEvent" ->
              Text("{actor_name} {action} an issue in {repo_name}",
                   << Ok(actor_name), Ok(GetAttr("action", VStr("unknown"))), Ok(repo_name) >>)
         [] t = "PullRequestEvent" ->
              Text("{actor_name} {action} a pull request in {repo_name}",
                   << Ok(actor_name), Ok(GetAttr("action", VStr("unknown"))), Ok(repo_name) >>)
         [] t = "IssueCommentEvent" ->
              Text("{actor_name} {action} comment on issue{issue_number} in {repo_name}",
                   << Ok(actor_name), Ok(GetAttr("action", VStr("created"))),
                      Number("issue"), Ok(repo_name) >>)
         [] t = "CommitCommentEvent" ->
              Text("{actor_name} commented on commit in {repo_name}",
                   << Ok(actor_name), Ok(repo_name) >>)
         [] t = "PullRequestReviewEvent" ->
              Text("{actor_name} {action} review for PR{pr_number} in {repo_name}",
                   << Ok(actor_name), Ok(GetAttr("action", VStr("submitted"))),
                      Number("pull_request"), Ok(repo_name) >>)
         [] t = "PullRequestReviewCommentEvent" ->
              Text("{actor_name} {action} review comment on PR{pr_number} in {repo_name}",
                   << Ok(actor_name), Ok(GetAttr("action", VStr("created"))),
                      Number("pull_request"), Ok(repo_name) >>)
         [] t = "DeleteEvent" ->
              Text("{actor_name} deleted {ref_type} {ref} in {repo_name}",
                   << Ok(actor_name), Ok(GetAttr("ref_type", VStr("branch"))),
                      Ok(GetAttr("ref", VStr(""))), Ok(repo_name) >>)
         [] t = "ReleaseEvent" ->
              Text("{actor_name} {action} release {tag_name} in {repo_name}",
                   << Ok(actor_name), Ok(GetAttr("action", VStr("published"))),
                      Nested("release", "tag_name"), Ok(repo_name) >>)
         [] t = "GollumEvent" ->
              Text("{actor_name} updated {pages_count} wiki page(s) in {repo_name}",
                   << Ok(actor_name), Len_(GetAttr("pages", VList(<< >>))), Ok(repo_name) >>)
         [] t = "MemberEvent" ->
              Text("{actor_name} {action} {member_name} as member to {repo_name}",
                   << Ok(actor_name), Ok(GetAttr("action", VStr("added"))),
                      Nested("member", "login"), Ok(repo_name) >>)
         [] t = "PublicEvent" ->
              Text("{actor_name} made {repo_name} public", << Ok(actor_name), Ok(repo_name) >>)
         [] t = "SponsorshipEvent" ->
              Text("{actor_name} {action} sponsorship",
                   << Ok(actor_name), Ok(GetAttr("action", VStr("created"))) >>)
         [] OTHER ->
              Text("{actor_name} performed {self.type} in {repo_name}",
                   << Ok(actor_name), Ok(type), Ok(repo_name) >>)

\* Complete records of every event type whose payload carries the fields that
\* get_event_summary reads, each present, null or absent.
SummaryRecords ==
    { [GoodRecord("1", t) EXCEPT !.payload =
         VDict(MakeDict([commits |-> c, pages |-> g, issue |-> i, pull_request |-> q,
                         release |-> r, member |-> m]))] :
        t \in KnownEventTypes \cup UnknownEventTypes,
        c \in { Absent, VNone, VList(<< >>), VList(<< VDict([sha |-> VStr("a1")]),
                                                      VDict([sha |-> VStr("b2")]) >>) },
        g \in { Absent, VNone, VList(<< VDict([page_name |-> VStr("Home")]) >>) },
        i \in { Absent, VNone, VDict([number |-> VInt("7")]) },
        q \in { Absent, VDict(EmptyDict) },
        r \in { Absent, VDict([tag_name |-> VStr("v1")]) },
        m \in { Absent, VNone } }

(***************************************************************************)
(* The event pipeline as a state machine: one call of from_api_response or *)
(* of _fetch_events on an input drawn from the sets above.                 *)
(***************************************************************************)
EventIdle ==
    /\ call = "idle" /\ epc = "idle" /\ event_data = EmptyDict
    /\ payload_obj = Ok(VNone) /\ returned_event = Ok(VNone)
    /\ response = NoResponse /\ fetched = Ok(VNone) /\ summary = Ok(VNone)

EventInitStates ==
    \/ /\ call = "from_api_response" /\ epc = "called"
       /\ event_data \in Records \cup SummaryRecords
       /\ payload_obj = Ok(VNone) /\ returned_event = Ok(VNone)
       /\ response = NoResponse /\ fetched = Ok(VNone) /\ summary = Ok(VNone)
    \/ /\ call = "_fetch_events" /\ epc = "called"
       /\ response \in Responses
       /\ event_data = EmptyDict /\ payload_obj = Ok(VNone) /\ returned_event = Ok(VNone)
       /\ fetched = Ok(VNone) /\ summary = Ok(VNone)

\* from_api_response runs on event_data: payload_obj is its local `payload`
\* after line 175, returned_event what the call returns or raises.
FromApiResponse ==
    /\ call = "from_api_response" /\ epc = "called"
    /\ payload_obj' = BuildPayload(event_data)
    /\ returned_event' = from_api_response(event_data)
    /\ epc' = "done"
    /\ UNCHANGED << call, event_data, response, fetched, summary, batch_vars,
                    convert_vars, record_vars, strategy_vars >>

\* _fetch_events runs on one HTTP exchange.
FetchEvents ==
    /\ call = "_fetch_events" /\ epc = "called"
    /\ fetched' = fetch_events(response)
    /\ epc' = "done"
    /\ UNCHANGED << call, event_data, payload_obj, returned_event, response, summary,
                    batch_vars, convert_vars, record_vars, strategy_vars >>

\* event.get_event_summary() on the Event that from_api_response returned.
GetEventSummary ==
    /\ call = "from_api_response" /\ epc = "done"
    /\ returned_event.raised = ""
    /\ summary' = get_event_summary(returned_event.value)
    /\ epc' = "summarised"
    /\ UNCHANGED << call, event_data, payload_obj, returned_event, response, fetched,
                    batch_vars, convert_vars, record_vars, strategy_vars >>

EventNext == FromApiResponse \/ FetchEvents \/ GetEventSummary


(***************************************************************************)
(* repository.py: Repository.from_api_response.                            *)
(***************************************************************************)
\* An instance handed to a field of its own class is accepted as it is; here
\* it is handed over as the map of its validated fields.
AsKwargs(instance) == IF instance = VNone THEN VNone ELSE VDict(instance.fields)

\* Repository.from_api_response(data), repository.py 168-257.
repository_from_api_response(data, clock) ==
    IF data.py # "dict" THEN Fail("AttributeError")
    ELSE
    LET d == data.d
        owner_data == Get(d, "owner", VDict(EmptyDict))
        o == IF owner_data.py = "dict" THEN owner_data.d ELSE EmptyDict
        owner == IF owner_data.py # "dict" THEN Fail("AttributeError")
                 ELSE Construct("RepositoryOwner", RepositoryOwnerSchema,
                                [username |-> Get(o, "login", VStr("")),
                                 avatar_url |-> Get(o, "avatar_url", VNone),
                                 type |-> Get(o, "type", VStr("User")),
                                 profile_url |-> Get(o, "html_url", VNone)], FALSE)
        license_data == Get(d, "license", VNone)
        l == IF license_data.py = "dict" THEN license_data.d ELSE EmptyDict
        license_obj == IF ~Truthy(license_data) THEN Ok(VNone)
                       ELSE IF license_data.py # "dict" THEN Fail("AttributeError")
                       ELSE Construct("RepositoryLicense", RepositoryLicenseSchema,
                                      [key |-> Get(l, "key", VStr("")),
                                       name |-> Get(l, "name", VStr("")),
                                       spdx_id |-> Get(l, "spdx_id", VNone),
                                       url |-> Get(l, "url", VNone)], FALSE)
        is_fork == Get(d, "fork", VBool("False"))
        parent_data == Get(d, "parent", VNone)
        enhance == Truthy(is_fork) /\ Truthy(parent_data)
        parent == IF enhance /\ parent_data.py # "dict" THEN Fail("AttributeError")
                  ELSE Ok(VNone)
        pd == IF parent_data.py = "dict" THEN parent_data.d ELSE EmptyDict
        description0 == Get(d, "description", VNone)
        topics0 == Get(d, "topics", VList(<< >>))
        topics_list == IF enhance /\ ~Truthy(topics0) /\ Truthy(Get(pd, "topics", VNone))
                         THEN Get(pd, "topics", VList(<< >>)) ELSE topics0
        description == IF enhance /\ ~Truthy(description0)
                          /\ Truthy(Get(pd, "description", VNone))
                         THEN Get(pd, "description", VNone) ELSE description0
        sd == IF enhance THEN pd ELSE d
        stats == Construct("RepositoryStats", RepositoryStatsSchema,
                           [stars |-> Get(sd, "stargazers_count", VInt("0")),
                            forks |-> Get(sd, "forks_count", VInt("0")),
                            watchers |-> Get(sd, "watchers_count", VInt("0")),
                            open_issues |-> Get(sd, "open_issues_count", VInt("0"))], FALSE)
        topics == Construct("RepositoryTopics", RepositoryTopicsSchema,
                            [topics |-> topics_list], FALSE)
        steps == << owner, license_obj, parent, stats, topics >>
    IN IF FirstRaised(steps) # "" THEN Fail(FirstRaised(steps))
       ELSE RepositoryInit(
         [id |-> PyStr(Get(d, "id", VStr(""))),
          name |-> Get(d, "name", VStr("")),
          full_name |-> Get(d, "full_name", VStr("")),
          description |-> description,
          url |-> Get(d, "html_url", VStr("")),
          clone_url |-> Get(d, "clone_url", VNone),
          ssh_url |-> Get(d, "ssh_url", VNone),
          homepage |-> Get(d, "homepage", VNone),
          owner |-> AsKwargs(owner.value),
          private |-> Get(d, "private", VBool("False")),
          fork |-> is_fork,
          archived |-> Get(d, "archived", VBool("False")),
          disabled |-> Get(d, "disabled", VBool("False")),
          template |-> Get(d, "is_template", VBool("False")),
          language |-> Get(d, "language", VNone),
          languages |-> Get(d, "languages", VDict(EmptyDict)),
          size |-> Get(d, "size", VInt("0")),
          default_branch |-> Get(d, "default_branch", VStr("main")),
          license |-> AsKwargs(license_obj.value),
          topics |-> AsKwargs(topics.value),
          stats |-> AsKwargs(stats.value),
          is_fork_enhanced |-> VBool(IF enhance THEN "True" ELSE "False"),
          parent_full_name |-> IF enhance THEN Get(pd, "full_name", VNone) ELSE VNone,
          created_at |-> Get(d, "created_at", VStr("")),
          updated_at |-> Get(d, "updated_at", VStr("")),
          pushed_at |-> Get(d, "pushed_at", VNone)], clock)

(***************************************************************************)
(* Inputs and state machine of the conversion of one record.               *)
(***************************************************************************)
\* Raw extraction records of a user profile.
UserRecords ==
    { VDict(MakeDict([username |-> u, login |-> l, name |-> n, followers |-> f,
                      following |-> g, public_repos |-> r])) :
        u \in { Absent, VStr(""), VStr("hubber") },
        l \in { Absent, VStr(""), VStr("octo") },
        n \in { Absent, VStr(""), VStr("Octo Cat") },
        f \in { Absent, VStr("12"), VStr("1,024"), VStr("abc"), VNone },
        g \in { Absent, VStr("5") },
        r \in { Absent, VStr(" 12 ") } }

\* Raw extraction records of a repository.
RepositoryRecords ==
    { VDict(MakeDict([name |-> n, full_name |-> f, url |-> u, owner_username |-> o,
                      stars |-> s, forks |-> k, watchers |-> w, language |-> l,
                      created_at |-> c, topics |-> t])) :
        n \in { Absent, VStr("etrace") },
        f \in { Absent, VStr("octo/etrace") },
        u \in { Absent, VStr("https://github.com/octo/etrace") },
        o \in { Absent, VStr("octo") },
        s \in { Absent, VStr("1,234"), VStr("abc"), VNone },
        k \in { Absent, VStr("1,024") },
        w \in { VStr("12") },
        l \in { Absent, VStr(""), VStr("Python"), VStr("  "), VStr("Klingon") },
        c \in { Absent, GoodTime },
        t \in { Absent, VList(<< VStr("tla") >>) } }

\* Repository records in the shape of the GitHub API.
ApiRepositoryRecords ==
    { VDict(MakeDict([id |-> VInt("7"), name |-> VStr("etrace"), full_name |-> f,
                      html_url |-> VStr("https://github.com/octo/etrace"), owner |-> o,
                      language |-> l, stargazers_count |-> s, fork |-> k,
                      parent |-> p, topics |-> t, description |-> e,
                      created_at |-> c, updated_at |-> c])) :
        f \in { Absent, VStr("octo/etrace") },
        o \in { Absent, VDict([login |-> VStr("octo")]), VStr("octo") },
        l \in { Absent, VNone, VStr(""), VStr("  "), VStr("Python"), VStr("Go"),
                VStr("Klingon"), VInt("5") },
        s \in { Absent, VInt("5") },
        k \in { Absent, VBool("True") },
        p \in { Absent, VDict(EmptyDict),
                VDict([full_name |-> VStr("up/etrace"), stargazers_count |-> VInt("12")]),
                VDict([full_name |-> VStr("up/etrace"), stargazers_count |-> VInt("12"),
                       forks_count |-> VInt("3"), topics |-> VList(<< VStr("upstream") >>),
                       description |-> VStr("the original")]) },
        t \in { Absent, VList(<< VStr("tla") >>) },
        e \in { Absent, VStr(""), VStr("mine") },
        c \in { Absent, GoodTime, BadTime } }

\* EventConverter.convert(data), converters.py 141-166.
EventConvert(data, clock) ==
    IF data.py # "dict" THEN Fail("AttributeError")
    ELSE
    LET d == data.d
        event_hash == Hash(Fmt("{type}_{timestamp}",
                               << Get(d, "type", VStr("unknown")),
                                  Get(d, "timestamp", VStr("")) >>))
        actor_hash == Hash(Get(d, "actor_username", VStr("unknown")))
        repo_hash == Hash(Get(d, "repository_name", VStr("unknown")))
        size == StatInt(d, "commit_count")
        steps == << event_hash, actor_hash, repo_hash, size >>
    IN IF FirstRaised(steps) # "" THEN Fail(FirstRaised(steps))
       ELSE Ok(VDict(
         [id |-> PyStr(event_hash.value),
          type |-> Fmt("{type}Event", Get(d, "type", VStr("Unknown"))),
          actor |-> VDict([id |-> actor_hash.value,
                           login |-> Get(d, "actor_username", VStr("")),
                           avatar_url |-> Get(d, "actor_avatar", VStr("")),
                           url |-> Fmt("https://github.com/",
                                       Get(d, "actor_username", VStr("")))]),
          repo |-> VDict([id |-> repo_hash.value,
                          name |-> Get(d, "repository_name", VStr("")),
                          url |-> Get(d, "repository_url", VStr(""))]),
          payload |-> VDict([action |-> Get(d, "action_description", VStr("")),
                             size |-> size.value,
                             ref |-> Get(d, "branch_name", VStr(""))]),
          public |-> VBool("True"),
          created_at |-> Get(d, "timestamp", Fmt("isoformat", Now(clock)))]))

\* Raw extraction records of an activity.
EventExtractionRecords ==
    { VDict(MakeDict([type |-> t, timestamp |-> c, actor_username |-> a,
                      repository_name |-> r, commit_count |-> n])) :
        t \in { Absent, VStr("Push") },
        c \in { Absent, GoodTime },
        a \in { Absent, VStr("octo") },
        r \in { Absent, VStr("octo/etrace"), VList(<< VStr("octo"), VStr("etrace") >>) },
        n \in { Absent, VStr("5"), VStr("abc") } }

RecordOps ==
    { "UserProfileConverter.convert", "RepositoryConverter.convert",
      "EventConverter.convert", "Repository.from_api_response" }

RecordIdle ==
    /\ rop = "" /\ rpc = "idle" /\ raw = VNone /\ readings = << >>
    /\ out1 = Ok(VNone) /\ out2 = Ok(VNone) /\ built = Ok(VNone)

RecordInitStates ==
    /\ rop \in RecordOps
    /\ rpc = "called"
    /\ raw \in (CASE rop = "UserProfileConverter.convert" -> UserRecords
                  [] rop = "RepositoryConverter.convert" -> RepositoryRecords
                  [] rop = "EventConverter.convert" -> EventExtractionRecords
                  [] OTHER -> ApiRepositoryRecords)
    /\ readings \in Clock \X Clock
    /\ out1 = Ok(VNone) /\ out2 = Ok(VNone) /\ built = Ok(VNone)

\* UserProfileConverter.convert(raw)
UserConvert ==
    /\ rpc = "called" /\ rop = "UserProfileConverter.convert"
    /\ out1' = UserProfileConvert(raw, readings[1])
    /\ rpc' = "converted"
    /\ UNCHANGED << rop, raw, readings, out2, built, batch_vars, event_vars, convert_vars, strategy_vars >>

\* EventConverter.convert(raw)
EvConvert ==
    /\ rpc = "called" /\ rop = "EventConverter.convert"
    /\ out1' = EventConvert(raw, readings[1])
    /\ rpc' = "converted"
    /\ UNCHANGED << rop, raw, readings, out2, built, batch_vars, event_vars, convert_vars, strategy_vars >>

\* RepositoryConverter.convert(raw)
RepoConvert ==
    /\ rpc = "called" /\ rop = "RepositoryConverter.convert"
    /\ out1' = RepositoryConvert(raw, readings[1])
    /\ rpc' = "converted"
    /\ UNCHANGED << rop, raw, readings, out2, built, batch_vars, event_vars, convert_vars, strategy_vars >>

\* RepositoryConverter.convert(raw) once more, later
RepoConvertAgain ==
    /\ rpc = "converted" /\ rop = "RepositoryConverter.convert"
    /\ out2' = RepositoryConvert(raw, readings[2])
    /\ rpc' = "again"
    /\ UNCHANGED << rop, raw, readings, out1, built, batch_vars, event_vars, convert_vars, strategy_vars >>

\* RepositoryConverter.convert applied to the map the first call returned
RepoReconvert ==
    /\ rpc = "converted" /\ rop = "RepositoryConverter.convert"
    /\ out1.raised = ""
    /\ out2' = RepositoryConvert(out1.value, readings[2])
    /\ rpc' = "reconverted"
    /\ UNCHANGED << rop, raw, readings, out1, built, batch_vars, event_vars, convert_vars, strategy_vars >>

\* Repository(**converted)
RepoBuild ==
    /\ rpc = "converted" /\ rop = "RepositoryConverter.convert"
    /\ out1.raised = ""
    /\ built' = RepositoryInit(out1.value.d, readings[2])
    /\ rpc' = "built"
    /\ UNCHANGED << rop, raw, readings, out1, out2, batch_vars, event_vars, convert_vars, strategy_vars >>

\* Repository.from_api_response(raw)
RepoFromApi ==
    /\ rpc = "called" /\ rop = "Repository.from_api_response"
    /\ built' = repository_from_api_response(raw, readings[1])
    /\ rpc' = "built"
    /\ UNCHANGED << rop, raw, readings, out1, out2, batch_vars, event_vars, convert_vars, strategy_vars >>

RecordNext ==
    \/ UserConvert \/ RepoConvert \/ RepoConvertAgain \/ RepoReconvert \/ RepoBuild
    \/ RepoFromApi \/ EvConvert

(***************************************************************************)
(* github_strategy.py: one GitHubStrategy instance.  _process_extraction_  *)
(* data, and the crawl_* methods, which store the model type they select   *)
(* in self.model_type, await the extraction and convert after it.          *)
(***************************************************************************)
\* json.loads(x) on the strings of the model.
JsonLoads(x) ==
    CASE x = "{\"name\": \"etrace\"}" -> Ok(VDict([name |-> VStr("etrace")]))
      [] x = "[{\"name\": \"etrace\"}]" -> Ok(VList(<< VDict([name |-> VStr("etrace")]) >>))
      [] x = "[1, {\"name\": \"etrace\"}]" ->
           Ok(VList(<< VInt("1"), VDict([name |-> VStr("etrace")]) >>))
      [] x = "5" -> Ok(VInt("5"))
      [] OTHER -> Fail("JSONDecodeError")

\* The loop over a list, github_strategy.py 82-96: a map is kept, a string is
\* kept as the map it parses to, everything else is dropped.
RECURSIVE ProcessItems(_)
ProcessItems(list) ==
    IF list = << >> THEN << >>
    ELSE LET item == Head(list)
             parsed_item == JsonLoads(item.s)
         IN (IF item.py = "dict" THEN << item >>
             ELSE IF item.py = "str" /\ parsed_item.raised = "" /\ parsed_item.value.py = "dict"
               THEN << parsed_item.value >>
             ELSE << >>) \o ProcessItems(Tail(list))

\* GitHubStrategy._process_extraction_data, github_strategy.py 62-106.
process_extraction_data(extracted_data) ==
    CASE extracted_data.py = "str" ->
           LET parsed_data == JsonLoads(extracted_data.s)
           IN IF parsed_data.raised # "" THEN << >>
              ELSE IF parsed_data.value.py = "list" THEN parsed_data.value.d
              ELSE IF parsed_data.value.py = "dict" THEN << parsed_data.value >>
              ELSE << >>
      [] extracted_data.py = "list" -> ProcessItems(extracted_data.d)
      [] extracted_data.py = "dict" -> << extracted_data >>
      [] OTHER -> << >>

\* What an extraction can hand back: nothing, JSON text, lists, a map, a number.
ExtractionShapes ==
    { VNone, VStr(""), VList(<< >>), VInt("5"),
      VStr("{\"name\": \"etrace\"}"), VStr("[{\"name\": \"etrace\"}]"),
      VStr("[1, {\"name\": \"etrace\"}]"), VStr("5"), VStr("{oops"),
      VDict([name |-> VStr("etrace")]),
      VList(<< VDict([login |-> VStr("octo")]), VStr("{\"name\": \"etrace\"}"),
               VStr("{oops"), VStr("5"), VInt("5") >>) }

\* The model type each crawl method stores in self.model_type
\* (github_strategy.py 254-274); ModelType has no member EVENT.
StrategyMethods ==
    { "crawl_user_repositories", "crawl_user_activity", "crawl_user_profile",
      "crawl_repository_info" }
SelectedType(m) ==
    CASE m = "crawl_user_repositories" -> Ok("REPOSITORY")
      [] m = "crawl_user_activity" -> Fail("AttributeError")
      [] m = "crawl_user_profile" -> Ok("USER_PROFILE")
      [] m = "crawl_repository_info" -> Ok("REPOSITORY")

StrategyCalls == 1..Len(method)

StrategyIdle ==
    /\ scall = "idle" /\ shared_model_type = "" /\ method = << >> /\ spc = << >>
    /\ extraction = << >> /\ converted_as = << >> /\ sresult = << >>

StrategyInitStates ==
    \/ /\ scall = "crawl"
       /\ shared_model_type \in ModelType
       /\ method \in [1..2 -> StrategyMethods]
       /\ spc = [c \in 1..2 |-> "called"]
       /\ extraction = [c \in 1..2 |-> VNone]
       /\ converted_as = [c \in 1..2 |-> ""]
       /\ sresult = [c \in 1..2 |-> Ok(VNone)]
    \/ /\ scall = "_process_extraction_data"
       /\ shared_model_type \in ModelType
       /\ method = << "_process_extraction_data" >>
       /\ spc = << "called" >>
       /\ extraction \in { << e >> : e \in ExtractionShapes }
       /\ converted_as = << "" >>
       /\ sresult = << Ok(VNone) >>

\* crawl_* of call c runs up to its suspension: the model type is stored in
\* self.model_type, the url is valid, the extraction schema is looked up, and
\* the call awaits crawl_with_extraction.
StrategyCall(c) ==
    /\ scall = "crawl" /\ spc[c] = "called"
    /\ IF SelectedType(method[c]).raised # ""
         THEN /\ spc' = [spc EXCEPT ![c] = "raised"]
              /\ sresult' = [sresult EXCEPT ![c] = Fail(SelectedType(method[c]).raised)]
              /\ UNCHANGED shared_model_type
         ELSE /\ shared_model_type' = SelectedType(method[c]).value
              /\ spc' = [spc EXCEPT ![c] = "awaiting"]
              /\ UNCHANGED sresult
    /\ UNCHANGED << scall, method, extraction, converted_as, batch_vars, event_vars,
                    convert_vars, record_vars >>

\* crawl_with_extraction hands its result to call c, which runs to its end
\* (github_strategy.py 241-250): None for no data, else the models converted
\* from the processed data under self.model_type as it is now.
StrategyResume(c) ==
    /\ scall = "crawl" /\ spc[c] = "awaiting"
    /\ \E extracted_data \in ExtractionShapes :
         LET processed_data == process_extraction_data(extracted_data)
         IN /\ extraction' = [extraction EXCEPT ![c] = extracted_data]
            /\ IF ~Truthy(extracted_data) \/ processed_data = << >>
                 THEN /\ sresult' = [sresult EXCEPT ![c] = Ok(VNone)]
                      /\ UNCHANGED converted_as
                 ELSE /\ converted_as' = [converted_as EXCEPT ![c] = shared_model_type]
                      /\ sresult' = [sresult EXCEPT ![c] =
                           LET models == convert_to_models(processed_data, shared_model_type,
                                             [k \in DOMAIN processed_data |-> "now1"])
                           IN IF models.raised # "" THEN models ELSE Ok(VList(models.value))]
    /\ spc' = [spc EXCEPT ![c] = "returned"]
    /\ UNCHANGED << scall, shared_model_type, method, batch_vars, event_vars,
                    convert_vars, record_vars >>

\* strategy._process_extraction_data(extracted_data), called directly
ProcessExtractionData ==
    /\ scall = "_process_extraction_data" /\ spc[1] = "called"
    /\ sresult' = [sresult EXCEPT ![1] = Ok(VList(process_extraction_data(extraction[1])))]
    /\ spc' = [spc EXCEPT ![1] = "returned"]
    /\ UNCHANGED << scall, shared_model_type, method, extraction, converted_as,
                    batch_vars, event_vars, convert_vars, record_vars >>

StrategyNext ==
    \/ \E c \in StrategyCalls : StrategyCall(c)
    \/ \E c \in StrategyCalls : StrategyResume(c)
    \/ ProcessExtractionData

(***************************************************************************)
(* Initial states and specifications.                                      *)
(***************************************************************************)
BatchIdle ==
    /\ kind = "idle" /\ items = << >> /\ concurrent_limit = 0
    /\ sem_value = 0 /\ sem_waiters = << >>
    /\ tpc = << >> /\ outcome = << >> /\ finished = << >>
    /\ bpc = "idle" /\ processed_results = << >> /\ user_events = EmptyMap

BatchInit ==
    /\ \E inp \in BatchInputs : kind = inp.kind /\ items = inp.items
    /\ concurrent_limit \in 0..MaxLimit
    /\ sem_value = concurrent_limit
    /\ sem_waiters = << >>
    /\ tpc = [i \in 1..Len(items) |-> "created"]
    /\ outcome = [i \in 1..Len(items) |-> NoOutcome]
    /\ finished = << >>
    /\ bpc = "gathering"
    /\ processed_results = << >>
    /\ user_events = EmptyMap

BatchNext ==
    \/ \E i \in Tasks : Acquire(i)
    \/ \E i \in Tasks : Complete(i)
    \/ Return

InitBatch == BatchInit /\ EventIdle /\ ConvertIdle /\ RecordIdle /\ StrategyIdle

SpecBatch == InitBatch /\ [][BatchNext]_vars

\* The batch run under a fair event loop in which every started operation
\* ends: a step that stays possible is eventually taken.
SpecBatchFair == InitBatch /\ [][BatchNext]_vars /\ WF_vars(BatchNext)

InitEvent == EventInitStates /\ BatchIdle /\ ConvertIdle /\ RecordIdle /\ StrategyIdle

SpecEvent == InitEvent /\ [][EventNext]_vars

InitConvert == ConvertInitStates /\ BatchIdle /\ EventIdle /\ RecordIdle /\ StrategyIdle

SpecConvert == InitConvert /\ [][ConvertNext]_vars

InitRecord == RecordInitStates /\ BatchIdle /\ EventIdle /\ ConvertIdle /\ StrategyIdle

SpecRecord == InitRecord /\ [][RecordNext]_vars

\* The conversion pipeline as a whole: any one call of a converter, of a batch
\* conversion or of the event assembly.
InitPipeline == InitRecord \/ InitConvert \/ InitEvent

PipelineNext == RecordNext \/ ConvertNext \/ EventNext

SpecPipeline == InitPipeline /\ [][PipelineNext]_vars

InitStrategy == StrategyInitStates /\ BatchIdle /\ EventIdle /\ ConvertIdle /\ RecordIdle

SpecStrategy == InitStrategy /\ [][StrategyNext]_vars

(***************************************************************************)
(* Claims about the batch runs (checked under SpecBatch).                  *)
(***************************************************************************)
Returned_ == bpc = "returned"

\* What the caller is owed for task i: the operation's own value, None for an
\* exception.
Owed(i) == IF outcome[i].ended = "raised" THEN PyNone ELSE outcome[i].value

\* C3: at every moment at most concurrent_limit operations are inside the
\* gated section (hold a permit of the semaphore).
C3_AtMostLimitInGate == Cardinality(InGate) <= concurrent_limit

\* C3 witness: the gate is full while another task waits for admission.
C3_GateFullWithWaiter ==
    /\ concurrent_limit >= 1
    /\ Cardinality(InGate) = concurrent_limit
    /\ sem_waiters # << >>

\* C4: when the batch call has returned, result i of crawl_multiple_urls is the
\* outcome of the operation on urls[i], and the value stored under a username
\* by get_multiple_user_events is the outcome of an operation on that username,
\* whatever the completion order was.
C4_ResultsFollowInput ==
    Returned_ =>
        IF kind = "crawl"
          THEN /\ DOMAIN processed_results = Tasks
               /\ \A i \in Tasks :
                    /\ processed_results[i] = Owed(i)
                    /\ processed_results[i] # PyNone => processed_results[i].of = items[i]
          ELSE \A u \in DOMAIN user_events :
                 \E i \in Tasks :
                    /\ items[i] = u
                    /\ outcome[i].ended = "returned"
                    /\ user_events[u] = outcome[i].value
                    /\ user_events[u] # PyNone => user_events[u].of = u

\* C4 witness: a returned batch whose operations completed in an order other
\* than the input order, with results of several items.
C4_ReturnedOutOfOrder ==
    /\ Returned_
    /\ Len(items) >= 3
    /\ finished # [i \in Tasks |-> i]
    /\ \A i \in Tasks : outcome[i].ended = "returned" /\ outcome[i].value # PyNone

\* C5: in crawl_multiple_urls an operation that raised yields a failure (None)
\* at its own position and leaves every sibling's result alone: as many results
\* as items, each sibling's result what its own operation produced.
C5_FailureIsolatedPerItem ==
    (Returned_ /\ kind = "crawl") =>
        /\ Len(processed_results) = Len(items)
        /\ \A i \in Tasks :
             /\ outcome[i].ended \in { "returned", "raised" }
             /\ outcome[i].ended = "raised" => processed_results[i] = PyNone
             /\ outcome[i].ended = "returned" => processed_results[i] = outcome[i].value

\* C5 witness: limit 2, 5 items, item 3 raises, items 1, 2, 4, 5 succeed.
C5_FiveItemsThirdFails ==
    /\ Returned_ /\ kind = "crawl"
    /\ concurrent_limit = 2 /\ Len(items) = 5
    /\ outcome[3].ended = "raised"
    /\ \A i \in {1, 2, 4, 5} : processed_results[i] = Content(items[i], "d1")
    /\ processed_results[3] = PyNone

\* C6: the map returned by get_multiple_user_events has an entry for every
\* input username, also for one whose operation raised.
C6_EveryUsernameHasEntry ==
    (Returned_ /\ kind = "events") =>
        \A i \in Tasks : items[i] \in DOMAIN user_events

\* C7: the batch call returns only after every operation has completed with a
\* success or a failure: nothing is pending, waiting or in flight at return,
\* and crawl_multiple_urls returns a result for every item.
C7_ReturnsAfterAllComplete ==
    Returned_ =>
        /\ \A i \in Tasks : tpc[i] = "done" /\ outcome[i].ended \in { "returned", "raised" }
        /\ InGate = {} /\ sem_waiters = << >>
        /\ Len(finished) = Len(items)
        /\ kind = "crawl" => Len(processed_results) = Len(items)

\* C7 witness: a returned batch with more items than permits, where some task
\* had to wait for admission.
C7_ReturnedAfterQueueing ==
    /\ Returned_
    /\ concurrent_limit >= 1
    /\ Len(items) > concurrent_limit
    /\ \E k \in 1..Len(finished) : finished[k] # k

(***************************************************************************)
(* Claims about the event pipeline (checked under SpecEvent).              *)
(***************************************************************************)
Assembled == call = "from_api_response" /\ epc = "done"

\* The dispatch table of the specification: event type name -> payload class.
DispatchTable ==
    { << "PushEvent", "PushEventPayload" >>, << "WatchEvent", "WatchEventPayload" >>,
      << "CreateEvent", "CreateEventPayload" >>, << "ForkEvent", "ForkEventPayload" >>,
      << "IssuesEvent", "IssuesEventPayload" >>,
      << "PullRequestEvent", "PullRequestEventPayload" >>,
      << "IssueCommentEvent", "IssueCommentEventPayload" >>,
      << "CommitCommentEvent", "CommitCommentEventPayload" >>,
      << "PullRequestReviewEvent", "PullRequestReviewEventPayload" >>,
      << "PullRequestReviewCommentEvent", "PullRequestReviewCommentEventPayload" >>,
      << "DeleteEvent", "DeleteEventPayload" >>, << "ReleaseEvent", "ReleaseEventPayload" >>,
      << "GollumEvent", "GollumEventPayload" >>, << "MemberEvent", "MemberEventPayload" >>,
      << "PublicEvent", "PublicEventPayload" >>,
      << "SponsorshipEvent", "SponsorshipEventPayload" >> }

\* The class the table gives for a type name, the catch-all for any other.
Mapped(t) ==
    IF \E pair \in DispatchTable : pair[1] = t
      THEN (CHOOSE pair \in DispatchTable : pair[1] = t)[2]
      ELSE "EventPayload"

\* C1: for each known event type the payload built by from_api_response is of
\* the class the dispatch table maps from that name, and every Event returned
\* carries the payload class mapped from its own type.
C1_PayloadVariantMatchesType ==
    Assembled =>
        /\ \A t \in KnownEventTypes :
             (Get(event_data, "type", VNone) = VStr(t) /\ payload_obj.raised = "")
                => payload_obj.value.cls = Mapped(t)
        /\ returned_event.raised = "" =>
             /\ returned_event.value.fields.payload.cls
                  = Mapped(returned_event.value.fields.type.s)
             /\ returned_event.value.fields.payload = payload_obj.value

\* C1 witness: an Event of a known type late in the chain, carrying its class.
C1_ReviewCommentEventAssembled ==
    /\ Assembled
    /\ returned_event.raised = ""
    /\ returned_event.value.fields.type = VStr("PullRequestReviewCommentEvent")
    /\ returned_event.value.fields.payload.cls = "PullRequestReviewCommentEventPayload"

\* The payload map of the record (an absent payload is the empty map).
PayloadOf(rec) == Get(rec, "payload", VDict(EmptyDict))

\* The discriminator is a string outside the 16 known names (an absent type
\* is looked up as the empty string).
UnknownType(rec) ==
    LET t == Get(rec, "type", VStr(""))
    IN t.py = "str" /\ t.s \notin KnownEventTypes

\* C2: for a discriminator that is not one of the 16 known names and a
\* payload that is a map, payload construction does not fail and yields the
\* generic EventPayload, its action the payload's "action" (None when absent),
\* every other original field kept unchanged as an extra field.
C2_UnknownTypeGivesGeneric ==
    (Assembled /\ UnknownType(event_data) /\ PayloadOf(event_data).py = "dict") =>
        /\ payload_obj.raised = ""
        /\ payload_obj.value.cls = "EventPayload"
        /\ payload_obj.value.fields.action = Get(PayloadOf(event_data).d, "action", VNone)
        /\ \A k \in DOMAIN PayloadOf(event_data).d \ { "action" } :
             /\ k \in DOMAIN payload_obj.value.extra
             /\ payload_obj.value.extra[k] = PayloadOf(event_data).d[k]

RequiredFields == { "id", "type", "actor", "repo", "created_at", "public" }

\* The six required fields are present and well-formed: id and type strings,
\* actor and repo maps holding their required fields, public a boolean,
\* created_at an ISO-8601 timestamp; the payload, when present, is a map.
WellFormedRecord(rec) ==
    /\ RequiredFields \subseteq DOMAIN rec
    /\ rec["id"].py = "str" /\ rec["type"].py = "str"
    /\ rec["actor"].py = "dict"
    /\ { "id", "login", "url", "avatar_url" } \subseteq DOMAIN rec["actor"].d
    /\ rec["repo"].py = "dict"
    /\ { "id", "name", "url" } \subseteq DOMAIN rec["repo"].d
    /\ rec["public"].py = "bool"
    /\ rec["created_at"] = GoodTime
    /\ PayloadOf(rec).py = "dict"

\* C9: from_api_response raises (the record is malformed) and returns no Event
\* whenever one of id, type, actor, repo, created_at, public is absent; with
\* all six present and well-formed it returns an Event.
C9_MissingRequiredFieldFails ==
    Assembled =>
        /\ RequiredFields \ DOMAIN event_data # {} =>
             returned_event.raised # "" /\ returned_event.value = VNone
        /\ WellFormedRecord(event_data) =>
             /\ returned_event.raised = ""
             /\ returned_event.value.cls = "Event"
             /\ returned_event.value.fields.id = event_data["id"]
             /\ returned_event.value.fields.type = event_data["type"]

Fetched200 ==
    /\ call = "_fetch_events" /\ epc = "done"
    /\ ~response.exception /\ response.status_code = 200

\* C10: for a 200 response _fetch_events returns the Events of exactly the
\* records whose assembly succeeds, in response order; a record whose
\* assembly fails is skipped alone.
C10_MalformedRecordSkipped ==
    Fetched200 =>
        LET good == SelectSeq(response.json, LAMBDA r : from_api_response(r).raised = "")
        IN /\ fetched.raised = ""
           /\ fetched.value.py = "list"
           /\ Len(fetched.value.d) = Len(good)
           /\ \A k \in 1..Len(good) :
                /\ fetched.value.d[k] = from_api_response(good[k]).value
                /\ fetched.value.d[k].fields.id = good[k]["id"]

\* C10 witness: three records, the middle one malformed, the other two
\* returned in response order.
C10_MiddleRecordDropped ==
    /\ Fetched200
    /\ Len(response.json) = 3
    /\ from_api_response(response.json[1]).raised = ""
    /\ from_api_response(response.json[2]).raised # ""
    /\ from_api_response(response.json[3]).raised = ""
    /\ response.json[1]["id"] # response.json[3]["id"]
    /\ fetched.value.py = "list"
    /\ Len(fetched.value.d) = 2
    /\ fetched.value.d[1].fields.id = response.json[1]["id"]
    /\ fetched.value.d[2].fields.id = response.json[3]["id"]


\* The payload's size is a string that is not a number; its other fields have
\* the API's types.
MalformedSize(rec) ==
    /\ PayloadOf(rec).py = "dict"
    /\ "size" \in DOMAIN PayloadOf(rec).d
    /\ PayloadOf(rec).d["size"].py = "str"
    /\ PayloadOf(rec).d["size"].s \notin NumericStrs \cup DecimalStrs
    /\ "action" \in DOMAIN PayloadOf(rec).d => PayloadOf(rec).d["action"].py \in { "str", "None" }

\* C11: a PushEvent record with all required fields well-formed and a
\* non-numeric payload.size is assembled without raising, and the size of the
\* payload of the Event is 0.
C11_MalformedSizeCoercedToZero ==
    (/\ Assembled
     /\ WellFormedRecord(event_data)
     /\ event_data["type"] = VStr("PushEvent")
     /\ MalformedSize(event_data)) =>
        /\ returned_event.raised = ""
        /\ returned_event.value.fields.payload.cls = "PushEventPayload"
        /\ returned_event.value.fields.payload.fields.size = VInt("0")

\* C12: every Event assembled from a record of type "WatchEvent" carries a
\* WatchEventPayload whose action is "started", whatever the payload map holds.
C12_WatchActionIsStarted ==
    (/\ Assembled
     /\ returned_event.raised = ""
     /\ returned_event.value.fields.type = VStr("WatchEvent")) =>
        /\ returned_event.value.fields.payload.cls = "WatchEventPayload"
        /\ returned_event.value.fields.payload.fields.action = VStr("started")

(***************************************************************************)
(* Claims about batch conversion (checked under SpecConvert).              *)
(***************************************************************************)
\* What handling record i alone does in the called method: the conversion,
\* followed in _convert_to_models by the construction of the domain object.
RecordOutcome(i) ==
    IF conv_call = "convert_batch"
      THEN convert_extraction_to_domain(batch_input[i], self_model_type, now_readings[i])
      ELSE ConvertOne(batch_input[i], self_model_type,
                      BUSINESS_MODEL_MAP[self_model_type], now_readings[i])

\* The positions of the records whose handling does not raise.
Kept == { i \in DOMAIN batch_input : RecordOutcome(i).raised = "" }

\* The position in the output of the kept record i.
Rank(i) == Cardinality({ j \in Kept : j <= i })

\* C8: convert_batch and _convert_to_models never raise; their output is the
\* results of the records whose conversion (or construction) does not raise, in
\* input order, the failing records being dropped, so it is no longer than the
\* input.
C8_BatchConversionIsolatesFailures ==
    cpc = "returned" =>
      /\ batch_output.raised = ""
      /\ Len(batch_output.value) = Cardinality(Kept)
      /\ Len(batch_output.value) <= Len(batch_input)
      /\ \A i \in Kept : batch_output.value[Rank(i)] = RecordOutcome(i).value

\* convert_batch returned for three records of which only the middle one failed.
C8_MiddleRecordFailed ==
    /\ cpc = "returned"
    /\ conv_call = "convert_batch"
    /\ Len(batch_input) = 3
    /\ Kept = { 1, 3 }
    /\ Len(batch_output.value) = 2


(***************************************************************************)
(* Claims about the conversion of one record (checked under SpecRecord).   *)
(***************************************************************************)
Converted ==
    /\ rpc # "called"
    /\ rop \in { "UserProfileConverter.convert", "RepositoryConverter.convert" }

\* The integer the claim gives for a raw field: the parsed number, thousands
\* separators and surrounding whitespace removed, and 0 for a missing, None
\* or non-numeric value.
ExpectedInt(d, key) ==
    LET v == Get(d, key, VNone)
    IN IF v.py = "int" THEN v
       ELSE IF v.py = "str" /\ Strip(RemoveCommas(v.s)) \in DecimalStrs
              THEN VInt(Strip(RemoveCommas(v.s)))
       ELSE VInt("0")

\* C13: the integer coercion of the converters never raises and gives the
\* parsed integer or the default 0: followers, following, public_repos and
\* public_gists of UserProfileConverter, stars, forks and watchers of
\* RepositoryConverter.
C13_IntegerCoercionNeverRaises ==
    Converted =>
        /\ out1.raised = ""
        /\ rop = "UserProfileConverter.convert" =>
             \A key \in { "followers", "following", "public_repos", "public_gists" } :
                out1.value.d["stats"].d[key] = ExpectedInt(raw.d, key)
        /\ rop = "RepositoryConverter.convert" =>
             /\ out1.value.d["stargazers_count"] = ExpectedInt(raw.d, "stars")
             /\ out1.value.d["forks_count"] = ExpectedInt(raw.d, "forks")
             /\ out1.value.d["watchers_count"] = ExpectedInt(raw.d, "watchers")


\* C14: UserProfileConverter.convert of the record {"username": "",
\* "login": "octo", "followers": "1,024"} succeeds with username "octo" and
\* stats.followers 1024.
C14_OctoRecordConverts ==
    (/\ Converted
     /\ rop = "UserProfileConverter.convert"
     /\ raw = VDict([username |-> VStr(""), login |-> VStr("octo"),
                     followers |-> VStr("1,024")])) =>
        /\ out1.raised = ""
        /\ out1.value.d["username"] = VStr("octo")
        /\ out1.value.d["stats"].d["followers"] = VInt("1024")


\* The username the claim gives for a record: its username when non-empty,
\* else its login when non-empty, else its name when non-empty, else "unknown".
ExpectedUsername(d) ==
    LET NonEmpty(key) == key \in DOMAIN d /\ d[key].py = "str" /\ d[key].s # ""
    IN IF NonEmpty("username") THEN d["username"]
       ELSE IF NonEmpty("login") THEN d["login"]
       ELSE IF NonEmpty("name") THEN d["name"]
       ELSE VStr("unknown")

\* C15: the username (and the id taken from it) that UserProfileConverter.convert
\* produces is non-empty and is the first non-empty of the record's username,
\* login and name, or "unknown".
C15_UsernameFallbackChain ==
    (Converted /\ rop = "UserProfileConverter.convert" /\ out1.raised = "") =>
        /\ out1.value.d["username"] # VStr("")
        /\ out1.value.d["username"] = ExpectedUsername(raw.d)


\* Python's == on two values of the model, compared level by level.
RECURSIVE PyEq(_, _)
PyEq(a, b) ==
    IF a.py # b.py THEN FALSE
    ELSE IF a.py = "dict"
      THEN /\ DOMAIN a.d = DOMAIN b.d
           /\ \A key \in DOMAIN a.d : PyEq(a.d[key], b.d[key])
    ELSE IF a.py = "list"
      THEN /\ Len(a.d) = Len(b.d)
           /\ \A i \in 1..Len(a.d) : PyEq(a.d[i], b.d[i])
    ELSE a = b

\* C16: RepositoryConverter.convert applied to a map it returned gives a map
\* equal to that one, field for field, nested owner, topics and stats included.
C16_ConvertIsIdempotent ==
    rpc = "reconverted" => (out2.raised = "" /\ PyEq(out2.value, out1.value))

\* C17: two conversions of the same record by RepositoryConverter.convert give
\* maps equal in every field, and for a record without an id the derived id
\* is determined by the record's name alone.
C17_ConvertIsDeterministic ==
    rpc = "again" =>
        /\ out2.raised = out1.raised
        /\ out1.raised = "" =>
             /\ PyEq(out2.value, out1.value)
             /\ "id" \notin DOMAIN raw.d =>
                  out1.value.d["id"] = PyStr(Hash(Get(raw.d, "name", VStr("unknown"))).value)

\* An owner username that names an owner: neither empty nor the converter's
\* placeholder.
OwnerKnown(username) == username.py = "str" /\ username.s \notin { "", "unknown" }

\* full_name is the owner username, a slash, and the repository name.
OwnerSlashName(full_name, username, name) ==
    /\ full_name.py = "str" /\ name.py = "str"
    /\ full_name.s = username.s \o "/" \o name.s

\* C18: a repository record from RepositoryConverter.convert or from
\* Repository.from_api_response whose owner username is known has
\* full_name = owner username + "/" + name.
C18_FullNameIsOwnerSlashName ==
    /\ (rop = "RepositoryConverter.convert" /\ rpc = "converted" /\ out1.raised = ""
          /\ OwnerKnown(out1.value.d["owner"].d["username"]))
         => OwnerSlashName(out1.value.d["full_name"],
                           out1.value.d["owner"].d["username"], out1.value.d["name"])
    /\ (rop = "Repository.from_api_response" /\ rpc = "built" /\ built.raised = ""
          /\ OwnerKnown(built.value.fields["owner"].fields["username"]))
         => OwnerSlashName(built.value.fields["full_name"],
                           built.value.fields["owner"].fields["username"],
                           built.value.fields["name"])

\* C19: a Repository built from the map RepositoryConverter.convert returned
\* has stats.stars, stats.forks and stats.watchers equal to the integers
\* parsed from the raw stars, forks and watchers strings.
C19_BuiltStatsAreParsedCounts ==
    (rop = "RepositoryConverter.convert" /\ rpc = "built" /\ built.raised = "") =>
        LET stats == built.value.fields["stats"].fields
        IN /\ stats["stars"] = CountInt(raw.d, "stars").value
           /\ stats["forks"] = CountInt(raw.d, "forks").value
           /\ stats["watchers"] = CountInt(raw.d, "watchers").value

\* The language a string is normalised to: none for an empty or blank string,
\* the member whose value equals it ignoring case, OTHER for the rest.
BlankStrs == { "", "  " }
ExpectedLanguage(v) ==
    IF v.s \in BlankStrs THEN VNone
    ELSE IF Lower(v.s) \in RepositoryLanguage THEN Language(Lower(v.s))
    ELSE Language("other")

\* The language handed to the Repository constructor in a built state.
GivenLanguage ==
    IF rop = "RepositoryConverter.convert" THEN out1.value.d["language"]
    ELSE Get(raw.d, "language", VNone)

\* C20: the language of a Repository is none or a member of RepositoryLanguage;
\* a string is normalised as ExpectedLanguage says; and the map returned by
\* RepositoryConverter.convert carries None, never "", for an empty or
\* missing language.
C20_LanguageIsNoneOrMember ==
    /\ (rpc = "built" /\ built.raised = "") =>
         LET language == built.value.fields["language"]
         IN /\ \/ language = VNone
               \/ language.py = "RepositoryLanguage" /\ language.s \in RepositoryLanguage
            /\ GivenLanguage.py = "str" => language = ExpectedLanguage(GivenLanguage)
    /\ (rop = "RepositoryConverter.convert" /\ rpc # "called" /\ out1.raised = "") =>
         /\ out1.value.d["language"] # VStr("")
         /\ Get(raw.d, "language", VStr("")) = VStr("") => out1.value.d["language"] = VNone

\* A Repository built from a converted record whose language names no member.
C20_UnknownLanguageBecomesOther ==
    /\ rop = "RepositoryConverter.convert" /\ rpc = "built" /\ built.raised = ""
    /\ Get(raw.d, "language", VNone) = VStr("Klingon")
    /\ built.value.fields["language"] = Language("other")

(***************************************************************************)
(* Claims about timestamps, batches and shared state.                      *)
(***************************************************************************)
\* C21: a created_at string that cannot be parsed does not fail the record:
\* whenever the record with a well-formed timestamp in its place is assembled
\* into an Event, the record itself is assembled too, with a datetime as its
\* created_at.
C21_BadTimestampNeverFailsRecord ==
    (/\ call = "from_api_response" /\ epc = "done"
     /\ "created_at" \in DOMAIN event_data
     /\ event_data["created_at"].py = "str"
     /\ from_api_response([event_data EXCEPT !["created_at"] = GoodTime]).raised = "")
      => /\ returned_event.raised = ""
         /\ returned_event.value.fields["created_at"].py = "datetime"

\* C22: no retries inside a batch run.  The operation of an item is started
\* (its task enters the gated section) only if it has never been started, a
\* started operation runs until it ends, an ended one stays ended with the
\* outcome it had, and when gather is done every item has its one outcome: an
\* item whose operation failed is in gather's results as that failure.
C22_NoRetries ==
    /\ [](GatherDone => \A i \in Tasks : outcome[i].ended # "pending")
    /\ [][\A i \in Tasks :
            /\ (tpc[i] # "running" /\ tpc'[i] = "running") =>
                 (tpc[i] \in { "created", "waiting" } /\ outcome[i] = NoOutcome)
            /\ tpc[i] = "running" => tpc'[i] \in { "running", "done" }
            /\ tpc[i] = "done" => (tpc'[i] = "done" /\ outcome'[i] = outcome[i])]_vars

\* A batch larger than the limit has returned with one item's operation failed.
C22_BatchReturnedWithFailure ==
    /\ bpc = "returned" /\ Len(items) > concurrent_limit
    /\ \E i \in Tasks : outcome[i].ended = "raised"

\* C23: on one GitHubStrategy instance, the records each crawl call extracted
\* are converted with the model type that this call selected, whatever the
\* other call did while this one was suspended.
C23_ConvertedWithOwnModelType ==
    scall = "crawl" =>
        \A c \in StrategyCalls :
            converted_as[c] # "" => converted_as[c] = SelectedType(method[c]).value

\* C28: _process_extraction_data never raises and returns a list whose every
\* element is a map, for every shape of its input; an input that is no
\* string, list or map gives the empty list.
C28_ProcessedDataIsListOfMaps ==
    (scall = "_process_extraction_data" /\ spc[1] = "returned") =>
        /\ sresult[1].raised = ""
        /\ sresult[1].value.py = "list"
        /\ \A i \in DOMAIN sresult[1].value.d : sresult[1].value.d[i].py = "dict"
        /\ extraction[1].py \notin { "str", "list", "dict" } => sresult[1].value.d = << >>

\* C24: conversion does not mutate its input.  No step of
\* UserProfileConverter.convert, RepositoryConverter.convert,
\* EventConverter.convert, Repository(**map), Event.from_api_response,
\* _fetch_events, convert_batch or _convert_to_models changes the record or
\* the list it was given, nested maps included, whether or not the
\* conversion of a record fails.
C24_InputNotMutated ==
    [][raw' = raw /\ batch_input' = batch_input /\ event_data' = event_data
       /\ response' = response]_vars

\* convert_batch returned for a batch in which a record failed to convert.
C24_BatchWithFailureReturned ==
    /\ cpc = "returned" /\ conv_call = "convert_batch"
    /\ batch_input # << >>
    /\ Len(batch_output.value) < Len(batch_input)

\* C25: the permits of the gate are accounted for.  The permits taken from
\* the semaphore are exactly those of the operations inside the gated section,
\* one each (so an operation that ended, by returning or by raising, has given
\* its permit back once), their number is never negative and never above the
\* limit, and when the batch call has returned no permit is held.
C25_PermitsAccounted ==
    /\ sem_value >= 0 /\ sem_value <= concurrent_limit
    /\ concurrent_limit - sem_value = Cardinality(InGate)
    /\ \A i \in Tasks : tpc[i] = "done" <=> outcome[i].ended # "pending"
    /\ bpc = "returned" => (sem_value = concurrent_limit /\ sem_waiters = << >>)

\* A batch larger than its limit has returned, every permit is back, and the
\* operation of a task that had to wait for a permit raised.
C25_AllPermitsBackAfterFailure ==
    /\ bpc = "returned" /\ concurrent_limit >= 1 /\ sem_value = concurrent_limit
    /\ \E i \in Tasks : i > concurrent_limit /\ outcome[i].ended = "raised"

\* C26: a batch run with a limit of at least 1 does not deadlock.  Under a
\* fair event loop in which every started operation ends, every item is
\* admitted through the gate and ends, and the batch call returns, also when
\* there are more items than permits.
C26_BatchEventuallyReturns ==
    (concurrent_limit >= 1) ~>
        (bpc = "returned" /\ \A i \in Tasks : tpc[i] = "done" /\ outcome[i].ended # "pending")

\* A batch of at least three items has returned through a gate of one permit.
C26_ReturnedThroughOnePermit ==
    /\ bpc = "returned" /\ concurrent_limit = 1 /\ Len(items) >= 3
    /\ sem_waiters = << >>

\* The last position of username u in the input list.
LastOccurrence(u) == CHOOSE i \in Tasks : items[i] = u /\ \A j \in Tasks : items[j] = u => j <= i

\* C27: for a username list with repetitions, get_multiple_user_events runs
\* one operation per occurrence, returns a map with exactly one entry per
\* distinct username, and keeps for a repeated username the outcome of its
\* last occurrence in input order, whatever the completion order.
C27_LastOccurrenceWins ==
    (kind = "events" /\ bpc = "returned") =>
        /\ Len(finished) = Len(items)
        /\ \A i \in Tasks : outcome[i].ended # "pending"
        /\ DOMAIN user_events = { items[i] : i \in Tasks }
        /\ \A u \in DOMAIN user_events : user_events[u] = Owed(LastOccurrence(u))

\* C29: get_event_summary is total.  For every Event that from_api_response
\* returned, of a known or an unknown type and with any optional payload
\* field absent or null, it returns a string and does not raise; for a
\* PushEvent the count in the summary is the number of entries of
\* payload.commits, and 0 when commits is absent, null or empty.
C29_SummaryIsTotal ==
    (call = "from_api_response" /\ epc = "summarised") =>
        /\ summary.raised = ""
        /\ summary.value.py = "str"
        /\ event_data["type"] = VStr("PushEvent") =>
             LET payload_data == Get(event_data, "payload", VDict(EmptyDict))
                 commits == IF payload_data.py = "dict"
                              THEN Get(payload_data.d, "commits", VNone) ELSE VNone
             IN summary.value.of[2] =
                  VInt(ToString(IF commits.py = "list" THEN Len(commits.d) ELSE 0))

\* C30: in Repository.from_api_response, is_fork_enhanced is true exactly when
\* the record is marked as a fork and carries non-empty parent data.  Then
\* parent_full_name is the parent's full_name, the four statistics are the
\* parent's, and the parent's topics and description stand in for the
\* record's own only when the own ones are empty; otherwise parent_full_name
\* is None and statistics, topics and description are the record's own.
C30_ForkEnhancement ==
    (rop = "Repository.from_api_response" /\ rpc = "built" /\ built.raised = "") =>
        LET d == raw.d
            parent == Get(d, "parent", VNone)
            enhanced == /\ Get(d, "fork", VBool("False")) = VBool("True")
                        /\ parent.py = "dict" /\ DOMAIN parent.d # {}
            from == IF enhanced THEN parent.d ELSE d
            own_topics == Get(d, "topics", VList(<< >>))
            own_description == Get(d, "description", VNone)
            Empty(v) == v \in { VNone, VStr(""), VList(<< >>) }
            repo == built.value.fields
        IN /\ repo["is_fork_enhanced"] = VBool(IF enhanced THEN "True" ELSE "False")
           /\ repo["parent_full_name"] =
                (IF enhanced THEN Get(parent.d, "full_name", VNone) ELSE VNone)
           /\ repo["stats"].fields["stars"] = Get(from, "stargazers_count", VInt("0"))
           /\ repo["stats"].fields["forks"] = Get(from, "forks_count", VInt("0"))
           /\ repo["stats"].fields["watchers"] = Get(from, "watchers_count", VInt("0"))
           /\ repo["stats"].fields["open_issues"] = Get(from, "open_issues_count", VInt("0"))
           /\ repo["topics"].fields["topics"] =
                (IF enhanced /\ Empty(own_topics) /\ ~Empty(Get(parent.d, "topics", VNone))
                   THEN parent.d["topics"] ELSE own_topics)
           /\ repo["description"] =
                (IF enhanced /\ Empty(own_description)
                    /\ ~Empty(Get(parent.d, "description", VNone))
                   THEN parent.d["description"] ELSE own_description)

\* A fork without topics or description of its own was built from a parent
\* that has both.
C30_ForkTookParentTopics ==
    /\ rop = "Repository.from_api_response" /\ rpc = "built" /\ built.raised = ""
    /\ "topics" \notin DOMAIN raw.d /\ "description" \notin DOMAIN raw.d
    /\ built.value.fields["is_fork_enhanced"] = VBool("True")
    /\ built.value.fields["topics"].fields["topics"] = VList(<< VStr("upstream") >>)
    /\ built.value.fields["description"] = VStr("the original")
    /\ built.value.fields["stats"].fields["stars"] = VInt("12")

====
